---- MODULE Spec2Model ----
(***************************************************************************)
(* A model of quantity-math-js: the Dimensions vector algebra, the        *)
(* Quantity value type (construction, add, sub, multiply, convert, toSI,   *)
(* get) and the unit string parser.                                        *)
(*                                                                         *)
(* JavaScript numbers are modelled as exact rationals: floating-point      *)
(* rounding is not represented.  `undefined` is the empty sequence and a   *)
(* defined optional value v is the one-element sequence <<v>>.             *)
(***************************************************************************)
EXTENDS Integers, Sequences, FiniteSets, TLC

VARIABLES dims, dcall, dops, qty, qcall, qops, qshown, qheap, parsed, simp, printed

vars == <<dims, dcall, dops, qty, qcall, qops, qshown, qheap, parsed, simp, printed>>

-----------------------------------------------------------------------------
(* Bounds of the model *)

\* Largest exponent given to a directly constructed Dimensions
MaxInputExp == 1
\* Number of multiply/invert/pow calls applied after a construction
MaxDimOps == 2
\* Number of add/sub/multiply calls applied to a Quantity after its construction
MaxQuantityOps == 1
\* The longest exponent text (the text after '^') of a parsed unit token
MaxExponentLen == 3

\* The largest exponent of mass, length and time in a quantity to simplify
MaxTargetExp == 2

-----------------------------------------------------------------------------
(* Generic helpers *)

Range(s) == {s[i] : i \in 1..Len(s)}

Abs(n) == IF n < 0 THEN -n ELSE n

\* Array.prototype.indexOf: 0-based index of the first occurrence, or -1
indexOf(s, e) ==
    IF \E i \in 1..Len(s) : s[i] = e
    THEN (CHOOSE i \in 1..Len(s) : s[i] = e /\ \A j \in 1..(i - 1) : s[j] # e) - 1
    ELSE -1

\* The outcome of a call: a returned value or a thrown error
\* const v = ...; body: the body sees the value under one name
Bind(v, Body(_)) == Body(v)

\* The same with the value computed once, before the body
BindValue(v, Body(_)) == CHOOSE r \in { Body(w) : w \in {v} } : TRUE

Return(v) == [ok |-> TRUE, error |-> "", value |-> v]
Throw(msg, placeholder) == [ok |-> FALSE, error |-> msg, value |-> placeholder]

-----------------------------------------------------------------------------
(* Numbers: exact rationals num/den with den > 0, plus the IEEE specials   *)
(* encoded with den = 0: num = 1 is Infinity, -1 is -Infinity, 0 is NaN.   *)

RECURSIVE GCD(_, _)
GCD(a, b) == IF b = 0 THEN a ELSE GCD(b, a % b)

Sign(n) == IF n < 0 THEN -1 ELSE IF n > 0 THEN 1 ELSE 0

Rat(n, d) ==
    IF d = 0 THEN [num |-> Sign(n), den |-> 0]
    ELSE LET g == GCD(Abs(n), Abs(d))
         IN  [num |-> (Sign(d) * n) \div g, den |-> Abs(d) \div g]

Num(n) == Rat(n, 1)

NaN == [num |-> 0, den |-> 0]

isNaN(a) == a.den = 0 /\ a.num = 0
isInf(a) == a.den = 0 /\ a.num # 0
isZero(a) == a.den # 0 /\ a.num = 0

\* a === b on two numbers
NumEq(a, b) == ~isNaN(a) /\ ~isNaN(b) /\ a = b

RAdd(a, b) ==
    IF isNaN(a) \/ isNaN(b) THEN NaN
    ELSE IF isInf(a) /\ isInf(b) THEN (IF a.num = b.num THEN a ELSE NaN)
    ELSE IF isInf(a) THEN a
    ELSE IF isInf(b) THEN b
    ELSE LET g == GCD(a.den, b.den)
         IN  Rat(a.num * (b.den \div g) + b.num * (a.den \div g), (a.den \div g) * b.den)

RNeg(a) == [num |-> -a.num, den |-> a.den]

RSub(a, b) == RAdd(a, RNeg(b))

RMul(a, b) ==
    IF isNaN(a) \/ isNaN(b) THEN NaN
    ELSE IF isInf(a) \/ isInf(b)
    THEN (IF isZero(a) \/ isZero(b) THEN NaN ELSE [num |-> Sign(a.num) * Sign(b.num), den |-> 0])
    ELSE LET g1 == GCD(Abs(a.num), b.den)
             g2 == GCD(Abs(b.num), a.den)
         IN  Rat((a.num \div g1) * (b.num \div g2), (a.den \div g2) * (b.den \div g1))

RDiv(a, b) ==
    IF isNaN(a) \/ isNaN(b) THEN NaN
    ELSE IF isInf(a) THEN (IF isInf(b) THEN NaN
                           ELSE [num |-> a.num * (IF b.num < 0 THEN -1 ELSE 1), den |-> 0])
    ELSE IF isInf(b) THEN Num(0)
    ELSE IF isZero(b) THEN (IF isZero(a) THEN NaN ELSE [num |-> Sign(a.num), den |-> 0])
    ELSE LET g1 == GCD(Abs(a.num), Abs(b.num))
             g2 == GCD(a.den, b.den)
         IN  Rat((a.num \div g1) * (b.den \div g2), (a.den \div g2) * (b.num \div g1))

\* Math.pow(a, n) for an integer n
RECURSIVE RPow(_, _)
RPow(a, n) ==
    IF n = 0 THEN Num(1)
    ELSE IF n < 0 THEN RDiv(Num(1), RPow(a, -n))
    ELSE RMul(a, RPow(a, n - 1))

\* Number.isInteger(a)
isInteger(a) == a.den = 1

\* An optional number: undefined, or a defined value
undefined == <<>>
Some(v) == <<v>>
isUndefined(o) == Len(o) = 0
\* JS truthiness of an optional number: undefined, 0 and NaN are falsy
Truthy(o) == Len(o) # 0 /\ ~isZero(o[1]) /\ ~isNaN(o[1])
\* o ?? dflt
OrElse(o, dflt) == IF Len(o) = 0 THEN dflt ELSE o[1]
\* a === b on two optional numbers
OptEq(a, b) == IF Len(a) = 0 \/ Len(b) = 0 THEN Len(a) = Len(b) ELSE NumEq(a[1], b[1])

-----------------------------------------------------------------------------
(* Dimensions *)

numBasicDimensions == 9

\* The custom dimension names used in the model, in ascending order of
\* their UTF-16 code units (the order of JS string comparison and sort()).
NameOrder == <<"bar", "dir", "foo", "pax", "zap">>

NameRank(s) == CHOOSE i \in 1..Len(NameOrder) : NameOrder[i] = s

\* JS `u > v` on two strings
StrGT(u, v) == NameRank(u) > NameRank(v)

\* Array.from(set).sort()
SortNames(set) == SelectSeq(NameOrder, LAMBDA n : n \in set)

\* No Dimensions object (the constructor threw)
NoDimensions == [dimensions |-> <<>>, customDimensionNames |-> <<>>]

isSorted(customDimensionNames) ==
    \A i \in 1..Len(customDimensionNames) :
        i = 1 \/ StrGT(customDimensionNames[i], customDimensionNames[i - 1])

NewDimensions(dimensions, customDimensionNames) ==
    IF Len(dimensions) < numBasicDimensions
    THEN Throw("not enough dimensions specified for Quantity.", NoDimensions)
    ELSE IF Len(dimensions) # numBasicDimensions + Len(customDimensionNames)
    THEN Throw("If a Quantity includes custom dimensions, they must be named via customDimensionNames",
               NoDimensions)
    ELSE IF Len(customDimensionNames) # 0 /\ ~isSorted(customDimensionNames)
    THEN Throw("customDimensionNames is not sorted into the correct alphabetical order.", NoDimensions)
    ELSE Return([dimensions |-> dimensions, customDimensionNames |-> customDimensionNames])

RECURSIVE SumAbs(_)
SumAbs(s) == IF Len(s) = 0 THEN 0 ELSE Abs(Head(s)) + SumAbs(Tail(s))

dimensionality(x) == SumAbs(x.dimensions)

isDimensionless(x) == dimensionality(x) = 0

Dimensionless == NewDimensions(<<0, 0, 0, 0, 0, 0, 0, 0, 0>>, <<>>).value

combineCustomDimensionNames_nosort(x, y) ==
    x.customDimensionNames \o
        SelectSeq(y.customDimensionNames, LAMBDA n : n \notin Range(x.customDimensionNames))

combineCustomDimensionNames(x, y) ==
    SortNames(Range(x.customDimensionNames) \cup Range(y.customDimensionNames))

\* The exponent a Dimensions carries for a custom name, 0 when the name is absent
customValue(x, name) ==
    LET idx == indexOf(x.customDimensionNames, name)
    IN  IF idx = -1 THEN 0 ELSE x.dimensions[numBasicDimensions + idx + 1]

equalTo_basicOnly(this, other) ==
    \A i \in 1..numBasicDimensions : this.dimensions[i] = other.dimensions[i]

equalTo(this, other) ==
    IF \E i \in 1..numBasicDimensions : this.dimensions[i] # other.dimensions[i]
    THEN FALSE
    ELSE IF Len(this.customDimensionNames) = 0 /\ Len(other.customDimensionNames) = 0
    THEN TRUE
    ELSE LET names == combineCustomDimensionNames(this, other)
         IN  \A k \in 1..Len(names) : customValue(this, names[k]) = customValue(other, names[k])

tooManyCustomDimensions_off(customDimensionNames) == Len(customDimensionNames) > 5

tooManyCustomDimensions(customDimensionNames) == Len(customDimensionNames) > 4

multiply(this, y) ==
    IF Len(this.customDimensionNames) = 0 /\ Len(y.customDimensionNames) = 0
    THEN NewDimensions([i \in 1..Len(this.dimensions) |-> this.dimensions[i] + y.dimensions[i]], <<>>)
    ELSE LET customDimensionNames == combineCustomDimensionNames(this, y)
             newDimArray ==
                 [i \in 1..(numBasicDimensions + Len(customDimensionNames)) |->
                     IF i <= numBasicDimensions
                     THEN this.dimensions[i] + y.dimensions[i]
                     ELSE customValue(this, customDimensionNames[i - numBasicDimensions])
                          + customValue(y, customDimensionNames[i - numBasicDimensions])]
         IN  IF tooManyCustomDimensions(customDimensionNames)
             THEN Throw("Cannot have more than 4 custom dimensions.", NoDimensions)
             ELSE NewDimensions(newDimArray, customDimensionNames)

invert(this) ==
    NewDimensions([i \in 1..Len(this.dimensions) |-> this.dimensions[i] * (-1)],
                  this.customDimensionNames)

pow(this, n) ==
    IF ~isInteger(n)
    THEN Throw("Dimensions.pow(n): n must be an integer", NoDimensions)
    ELSE IF n.num = 0
    THEN Return(Dimensionless)
    ELSE NewDimensions([i \in 1..Len(this.dimensions) |-> this.dimensions[i] * n.num],
                       this.customDimensionNames)

-----------------------------------------------------------------------------
(* Unit registry *)

MASS_DIMENSION == NewDimensions(<<1, 0, 0, 0, 0, 0, 0, 0, 0>>, <<>>).value
DIST_DIMENSION == NewDimensions(<<0, 1, 0, 0, 0, 0, 0, 0, 0>>, <<>>).value
TIME_DIMENSION == NewDimensions(<<0, 0, 1, 0, 0, 0, 0, 0, 0>>, <<>>).value
TEMP_DIMENSION == NewDimensions(<<0, 0, 0, 1, 0, 0, 0, 0, 0>>, <<>>).value
FORCE_DIMENSION == NewDimensions(<<1, 1, -2, 0, 0, 0, 0, 0, 0>>, <<>>).value

\* The prefixes used in the model: prefix symbol -> factor
prefixes(p) ==
    CASE p = "k" -> Num(1000)
      [] p = "c" -> Rat(1, 100)
      [] p = "m" -> Rat(1, 1000)

Unit(s, d, offset) == [s |-> s, d |-> d, offset |-> offset]

\* The registry entries used in the model
builtInUnitNames == {"%", "g", "m", "s", "K", "deltaC", "degC", "N"}

builtInUnits(unit) ==
    CASE unit = "%" -> Unit(Rat(1, 100), Dimensionless, undefined)
      [] unit = "g" -> Unit(Rat(1, 1000), MASS_DIMENSION, undefined)
      [] unit = "m" -> Unit(Num(1), DIST_DIMENSION, undefined)
      [] unit = "s" -> Unit(Num(1), TIME_DIMENSION, undefined)
      [] unit = "K" -> Unit(Num(1), TEMP_DIMENSION, undefined)
      [] unit = "deltaC" -> Unit(Num(1), TEMP_DIMENSION, undefined)
      [] unit = "degC" -> Unit(Num(1), TEMP_DIMENSION, Some(Rat(27315, 100)))
      [] unit = "N" -> Unit(Num(1), FORCE_DIMENSION, undefined)

\* The custom dimension a "_name" unit stands for
customUnitDimension(unit) ==
    CASE unit = "_foo" -> "foo"
      [] unit = "_bar" -> "bar"
      [] unit = "_pax" -> "pax"

\* Registry lookup: a built-in unit, or an ad hoc custom unit of scale 1
\* with one custom dimension
getUnitData(unit) ==
    IF unit \in builtInUnitNames
    THEN builtInUnits(unit)
    ELSE Unit(Num(1),
              NewDimensions(<<0, 0, 0, 0, 0, 0, 0, 0, 0, 1>>, <<customUnitDimension(unit)>>).value,
              undefined)

ParsedUnit(prefix, unit, power) == [prefix |-> prefix, unit |-> unit, power |-> power]

\* The SI basis offered to the simplifier when a quantity has no unit output
baseSIUnits ==
    << ParsedUnit("k", "g", 1), ParsedUnit("", "m", 1), ParsedUnit("", "s", 1),
       ParsedUnit("", "K", 1), ParsedUnit("", "N", 1) >>

-----------------------------------------------------------------------------
(* Quantity *)

QuantityObject(magnitude, dimensions, significantFigures, plusMinus, offsetUsed, unitOutput) ==
    [magnitude |-> magnitude, dimensions |-> dimensions,
     significantFigures |-> significantFigures, plusMinus |-> plusMinus,
     offsetUsed |-> offsetUsed, unitOutput |-> unitOutput]

\* No Quantity object (the call threw)
NoQuantity == QuantityObject(NaN, NoDimensions, undefined, undefined, undefined, undefined)

Options(dimensions, units, significantFigures, plusMinus, setUnitOutput) ==
    [dimensions |-> dimensions, units |-> units, significantFigures |-> significantFigures,
     plusMinus |-> plusMinus, setUnitOutput |-> setUnitOutput]

\* this._pow(n): raise this quantity to the power n in place
QPow(this, n) ==
    IF n = 1 THEN Return(this)
    ELSE LET d == pow(this.dimensions, Num(n))
         IN  IF ~d.ok THEN Throw(d.error, this)
             ELSE Return([this EXCEPT
                     !.dimensions = d.value,
                     !.plusMinus = IF Truthy(this.plusMinus)
                                   THEN Some(RMul(RDiv(this.plusMinus[1], this.magnitude), Num(n)))
                                   ELSE this.plusMinus,
                     !.magnitude = RPow(this.magnitude, n)])

\* The uncertainty _multiply() leaves in this
multiplyPlusMinus_swapped(this, y) ==
    IF isUndefined(this.plusMinus)
    THEN IF isUndefined(y.plusMinus)
         THEN this.plusMinus
         ELSE Some(RMul(y.plusMinus[1], y.magnitude))
    ELSE IF Truthy(y.plusMinus)
         THEN Some(RMul(RAdd(RDiv(this.plusMinus[1], this.magnitude),
                             RDiv(y.plusMinus[1], y.magnitude)),
                        RMul(this.magnitude, y.magnitude)))
         ELSE Some(RMul(this.plusMinus[1], this.magnitude))

multiplyPlusMinus(this, y) ==
    IF isUndefined(this.plusMinus)
    THEN IF isUndefined(y.plusMinus)
         THEN this.plusMinus
         ELSE Some(RMul(y.plusMinus[1], this.magnitude))
    ELSE IF Truthy(y.plusMinus)
         THEN Some(RMul(RAdd(RDiv(this.plusMinus[1], this.magnitude),
                             RDiv(y.plusMinus[1], y.magnitude)),
                        RMul(this.magnitude, y.magnitude)))
         ELSE Some(RMul(this.plusMinus[1], y.magnitude))

\* this.significantFigures || y.significantFigures
hasSignificantFigures_thisOnly(this, y) == Truthy(this.significantFigures)

hasSignificantFigures(this, y) ==
    Truthy(this.significantFigures) \/ Truthy(y.significantFigures)

\* this._multiply(y): multiply this quantity by y in place.  When it throws,
\* the value is this as the throw leaves it.
QMultiplyInPlace(this, y) ==
    Bind(multiply(this.dimensions, y.dimensions), LAMBDA d :
        IF ~d.ok THEN Throw(d.error, this)
        ELSE Bind([this EXCEPT !.dimensions = d.value,
                               !.plusMinus = multiplyPlusMinus(this, y)], LAMBDA this1 :
            IF hasSignificantFigures(this, y)
            THEN Throw("Multiplication of significant figures is not yet implemented.", this1)
            ELSE Return([this1 EXCEPT !.magnitude = RMul(this.magnitude, y.magnitude)])))

\* The constructor's branch for options.dimensions
NewQuantityOfDimensions(magnitude, dimensions, significantFigures, plusMinus, setUnitOutput) ==
    QuantityObject(magnitude, dimensions, significantFigures, plusMinus, undefined,
                   IF ~isUndefined(setUnitOutput) /\ Len(setUnitOutput[1]) = 0
                   THEN undefined ELSE setUnitOutput)

\* The constructor's loop over the units, from the i-th unit on
\* May a unit with an offset be folded in?  Only as the single unit of the list
offsetPermitted_always(units) == TRUE

offsetPermitted(units) == Len(units) = 1

RECURSIVE foldUnits(_, _, _)
foldUnits(this, units, i) ==
    IF i > Len(units) THEN Return(this)
    ELSE Bind(getUnitData(units[i].unit), LAMBDA unitData :
         Bind(QPow(NewQuantityOfDimensions(
                       IF units[i].prefix # ""
                       THEN RMul(unitData.s, prefixes(units[i].prefix)) ELSE unitData.s,
                       unitData.d, undefined, undefined, undefined),
                   units[i].power), LAMBDA unitQuantity :
             IF ~unitQuantity.ok THEN Throw(unitQuantity.error, NoQuantity)
             ELSE Bind(QMultiplyInPlace(this, unitQuantity.value), LAMBDA product :
                 IF ~product.ok THEN Throw(product.error, NoQuantity)
                 ELSE IF Truthy(unitData.offset)
                 THEN IF ~offsetPermitted(units)
                      THEN Throw("It is not permitted to use compound units that include the offset unit",
                                 NoQuantity)
                      ELSE foldUnits([product.value EXCEPT
                                         !.magnitude = RAdd(product.value.magnitude, unitData.offset[1]),
                                         !.offsetUsed = unitData.offset],
                                     units, i + 1)
                 ELSE foldUnits(product.value, units, i + 1))))

\* new Quantity(magnitude, options)
NewQuantity(magnitude, options) ==
    IF ~isUndefined(options.units)
    THEN IF ~isUndefined(options.dimensions)
         THEN Throw("You can specify units or dimensions, but not both.", NoQuantity)
         ELSE foldUnits(QuantityObject(magnitude, Dimensionless, options.significantFigures,
                                       options.plusMinus, undefined, options.units),
                        options.units[1], 1)
    ELSE IF ~isUndefined(options.dimensions)
    THEN Return(NewQuantityOfDimensions(magnitude, options.dimensions[1], options.significantFigures,
                                        options.plusMinus, options.setUnitOutput))
    ELSE Return(QuantityObject(magnitude, Dimensionless, options.significantFigures,
                               options.plusMinus, undefined, undefined))

\* this._clone(options): unitOutput is the new unit output when one is given
clone_withoutPlusMinus(this, unitOutput) ==
    NewQuantityOfDimensions(this.magnitude, this.dimensions, this.significantFigures,
                            undefined, unitOutput)

clone(this, unitOutput) ==
    NewQuantityOfDimensions(this.magnitude, this.dimensions, this.significantFigures,
                            this.plusMinus, unitOutput)

sameDimensionsAs(this, other) == equalTo(this.dimensions, other.dimensions)

equals(this, other) ==
    /\ sameDimensionsAs(this, other)
    /\ NumEq(this.magnitude, other.magnitude)
    /\ OptEq(this.plusMinus, other.plusMinus)
    /\ OptEq(this.significantFigures, other.significantFigures)

\* The uncertainty of a sum
addPlusMinus_thisOnly(this, y) ==
    IF Truthy(this.plusMinus) THEN this.plusMinus ELSE undefined

addPlusMinus(this, y) ==
    IF Truthy(this.plusMinus) \/ Truthy(y.plusMinus)
    THEN Some(RAdd(OrElse(this.plusMinus, Num(0)), OrElse(y.plusMinus, Num(0))))
    ELSE undefined

\* The unit output of a sum
addUnitOutput_union(this, y) ==
    LET h1 == IF isUndefined(this.unitOutput) THEN <<>> ELSE this.unitOutput[1]
        h2 == IF isUndefined(y.unitOutput) THEN <<>> ELSE y.unitOutput[1]
    IN  Some(h1 \o SelectSeq(h2, LAMBDA u : \A k \in 1..Len(h1) : h1[k].unit # u.unit))

addUnitOutput(this, y) == this.unitOutput

\* The magnitude of a sum
addMagnitude(this, y) == RAdd(this.magnitude, y.magnitude)

sameDimensionsForAdd_always(this, y) == TRUE

sameDimensionsForAdd(this, y) == equalTo(this.dimensions, y.dimensions)

\* this.add(y)
add(this, y) ==
    IF ~sameDimensionsForAdd(this, y)
    THEN Throw("Cannot add quanitites with different units.", NoQuantity)
    ELSE IF hasSignificantFigures(this, y)
    THEN Throw("Addition of significant figures is not yet implemented.", NoQuantity)
    ELSE Return(NewQuantityOfDimensions(addMagnitude(this, y), this.dimensions, undefined,
                                        addPlusMinus(this, y), addUnitOutput(this, y)))

\* this.sub(y)
sub(this, y) ==
    LET tempQ == [clone(y, y.unitOutput) EXCEPT !.magnitude = RSub(Num(0), y.magnitude)]
    IN  add(this, tempQ)

\* The merge of the units yUnits[i..] into xUnits by unit dimension
mergeUnits_appendOnly(xUnits, yUnits, i) == xUnits \o SubSeq(yUnits, i, Len(yUnits))

RECURSIVE mergeUnits(_, _, _)
mergeUnits(xUnits, yUnits, i) ==
    IF i > Len(yUnits) THEN xUnits
    ELSE LET u == yUnits[i]
             matches == {k \in 1..Len(xUnits) :
                            equalTo(getUnitData(xUnits[k].unit).d, getUnitData(u.unit).d)}
         IN  IF matches # {}
             THEN LET k == CHOOSE k \in matches : \A j \in matches : k <= j
                  IN  mergeUnits([xUnits EXCEPT ![k].power = xUnits[k].power + u.power], yUnits, i + 1)
             ELSE mergeUnits(Append(xUnits, u), yUnits, i + 1)

isSingleDimensionlessUnit_never(units) == FALSE

isSingleDimensionlessUnit(units) ==
    Len(units) = 1 /\ isDimensionless(getUnitData(units[1].unit).d)

\* The unit output multiply() chooses for the product
multiplyUnitOutput(this, y) ==
    IF ~isUndefined(this.unitOutput) /\ ~isUndefined(y.unitOutput)
    THEN IF isSingleDimensionlessUnit(this.unitOutput[1]) THEN y.unitOutput
         ELSE IF isSingleDimensionlessUnit(y.unitOutput[1]) THEN this.unitOutput
         ELSE Some(SelectSeq(mergeUnits(this.unitOutput[1], y.unitOutput[1], 1),
                             LAMBDA u : u.power # 0))
    ELSE IF ~isUndefined(this.unitOutput) THEN this.unitOutput ELSE y.unitOutput

\* this.multiply(y)
QuantityMultiply(this, y) ==
    Bind(QMultiplyInPlace(clone(this, multiplyUnitOutput(this, y)), y), LAMBDA result :
        IF result.ok THEN result ELSE Throw(result.error, NoQuantity))

\* Is newRemainder a better candidate than the best one found so far?
isBetter_strictlyOnly(newRemainder, isInv, best) ==
    dimensionality(newRemainder) < dimensionality(best.remainder)

isBetter(newRemainder, isInv, best) ==
    \/ dimensionality(newRemainder) < dimensionality(best.remainder)
    \/ /\ dimensionality(newRemainder) = dimensionality(best.remainder)
       /\ isInv = 1
       /\ best.inv = -1

\* The scan of the basis from unit unitIdx on (unitsLoop); best.idx = -1 is
\* "none found".  Indexes are 0-based as in the source.
RECURSIVE unitsLoop(_, _, _, _)
unitsLoop(remainder, unitArray, unitIdx, best) ==
    IF unitIdx >= Len(unitArray) THEN Return(best)
    ELSE BindValue(multiply(remainder, invert(unitArray[unitIdx + 1]).value), LAMBDA pos :
         BindValue(multiply(remainder, unitArray[unitIdx + 1]), LAMBDA neg :
             IF ~pos.ok THEN Throw(pos.error, best)
             ELSE IF isBetter(pos.value, 1, best)
             THEN IF isDimensionless(pos.value)
                  THEN Return([idx |-> unitIdx, inv |-> 1, remainder |-> pos.value])
                  ELSE unitsLoop(remainder, unitArray, unitIdx + 1,
                                 [idx |-> unitIdx, inv |-> 1, remainder |-> pos.value])
             ELSE IF ~neg.ok THEN Throw(neg.error, best)
             ELSE IF isBetter(neg.value, -1, best)
             THEN unitsLoop(remainder, unitArray, unitIdx + 1,
                            [idx |-> unitIdx, inv |-> -1, remainder |-> neg.value])
             ELSE unitsLoop(remainder, unitArray, unitIdx + 1, best)))

NoUnitsPicked == [useUnits |-> <<>>, useUnitsPower |-> <<>>]

\* The check that a turn of the loop made progress towards remainder = 0
noProgress(bestRemainder, remainder) ==
    dimensionality(bestRemainder) >= dimensionality(remainder)

NoStep == [remainder |-> NoDimensions, picked |-> NoUnitsPicked,
           best |-> [idx |-> -1, inv |-> 0, remainder |-> NoDimensions]]

\* One turn of the while loop of pickUnitsFromListIterativeReduction
reductionStep_powerReplaced(remainder, unitArray, picked) ==
    BindValue(unitsLoop(remainder, unitArray, 0,
                   [idx |-> -1, inv |-> 0, remainder |-> remainder]), LAMBDA scan :
    BindValue(scan.value, LAMBDA best :
    BindValue(indexOf(picked.useUnits, best.idx), LAMBDA existingIdx :
        IF ~scan.ok THEN Throw(scan.error, NoStep)
        ELSE IF noProgress(best.remainder, remainder)
        THEN Throw("Cannot convert units that aren't compatible.", NoStep)
        ELSE Return([remainder |-> best.remainder,
                     picked |-> IF existingIdx = -1
                                THEN [useUnits |-> Append(picked.useUnits, best.idx),
                                      useUnitsPower |-> Append(picked.useUnitsPower, best.inv)]
                                ELSE [picked EXCEPT !.useUnitsPower[existingIdx + 1] = best.inv],
                     best |-> best]))))

reductionStep(remainder, unitArray, picked) ==
    BindValue(unitsLoop(remainder, unitArray, 0,
                   [idx |-> -1, inv |-> 0, remainder |-> remainder]), LAMBDA scan :
    BindValue(scan.value, LAMBDA best :
    BindValue(indexOf(picked.useUnits, best.idx), LAMBDA existingIdx :
        IF ~scan.ok THEN Throw(scan.error, NoStep)
        ELSE IF noProgress(best.remainder, remainder)
        THEN Throw("Cannot convert units that aren't compatible.", NoStep)
        ELSE Return([remainder |-> best.remainder,
                     picked |-> IF existingIdx = -1
                                THEN [useUnits |-> Append(picked.useUnits, best.idx),
                                      useUnitsPower |-> Append(picked.useUnitsPower, best.inv)]
                                ELSE [picked EXCEPT !.useUnitsPower[existingIdx + 1] = @ + best.inv],
                     best |-> best]))))

\* The while loop of pickUnitsFromListIterativeReduction
RECURSIVE iterativeReduction(_, _, _)
iterativeReduction(remainder, unitArray, picked) ==
    IF ~(dimensionality(remainder) > 0) THEN Return(picked)
    ELSE Bind(reductionStep(remainder, unitArray, picked), LAMBDA step :
        IF ~step.ok THEN Throw(step.error, NoUnitsPicked)
        ELSE iterativeReduction(step.value.remainder, unitArray, step.value.picked))

pickUnitsFromListIterativeReduction(this, unitArray) ==
    iterativeReduction(this.dimensions, unitArray, NoUnitsPicked)

\* What pickUnitsFromList makes of the units picked: a list of one
\* dimensionless unit is used when nothing was picked; each unit is given by
\* its index in the list and its power
unitsToUse(unitArray, picked) ==
    Bind(IF Len(unitArray) = 1 /\ Len(picked.useUnits) = 0 /\ isDimensionless(unitArray[1])
         THEN [useUnits |-> <<0>>, useUnitsPower |-> <<1>>]
         ELSE picked, LAMBDA used :
        [pi \in 1..Len(used.useUnits) |->
            [i |-> used.useUnits[pi], power |-> used.useUnitsPower[pi]]])

\* this.pickUnitsFromList(unitList)
pickUnitsFromList(this, unitList) ==
    Bind([i \in 1..Len(unitList) |-> getUnitData(unitList[i].unit).d], LAMBDA unitArray :
    Bind(pickUnitsFromListIterativeReduction(this, unitArray), LAMBDA r :
        IF ~r.ok THEN Throw(r.error, <<>>)
        ELSE Bind(unitsToUse(unitArray, r.value), LAMBDA used :
            Return([pi \in 1..Len(used) |->
                       ParsedUnit(unitList[used[pi].i + 1].prefix,
                                  unitList[used[pi].i + 1].unit,
                                  used[pi].power)]))))

SerializedQuantity(magnitude, units, significantFigures, plusMinus) ==
    [magnitude |-> magnitude, units |-> units,
     significantFigures |-> significantFigures, plusMinus |-> plusMinus]

NoSerializedQuantity == SerializedQuantity(NaN, <<>>, undefined, undefined)

\* The units get() reports the quantity in
unitsForResult_alwaysSI(this) == pickUnitsFromList(this, baseSIUnits)

unitsForResult(this) ==
    IF isUndefined(this.unitOutput)
    THEN pickUnitsFromList(this, baseSIUnits)
    ELSE Return(this.unitOutput[1])

\* this.get(); units is the list of units the unit string is rendered from
get(this) ==
    Bind(unitsForResult(this), LAMBDA picked :
        IF ~picked.ok THEN Throw(picked.error, NoSerializedQuantity)
        ELSE Bind(NewQuantity(Num(1), Options(undefined, Some(picked.value),
                                              undefined, undefined, undefined)), LAMBDA made :
            IF ~made.ok THEN Throw(made.error, NoSerializedQuantity)
            ELSE Bind(IF Truthy(made.value.offsetUsed)
                      THEN [made.value EXCEPT !.magnitude = RSub(@, made.value.offsetUsed[1])]
                      ELSE made.value, LAMBDA converter :
                Return(SerializedQuantity(
                    RDiv(RSub(this.magnitude, OrElse(converter.offsetUsed, Num(0))),
                         converter.magnitude),
                    picked.value,
                    IF Truthy(this.significantFigures) THEN this.significantFigures ELSE undefined,
                    IF Truthy(this.plusMinus)
                    THEN Some(RDiv(this.plusMinus[1], converter.magnitude))
                    ELSE undefined)))))

\* The loop of convert(): the product of the units' registry dimensions
\* raised to their powers, from the i-th unit on
RECURSIVE unitsDimensions(_, _, _)
unitsDimensions(unitsNormalized, i, dimensions) ==
    IF i > Len(unitsNormalized) THEN Return(dimensions)
    ELSE Bind(pow(getUnitData(unitsNormalized[i].unit).d, Num(unitsNormalized[i].power)),
              LAMBDA d :
         IF ~d.ok THEN Throw(d.error, dimensions)
         ELSE Bind(multiply(dimensions, d.value), LAMBDA product :
             IF ~product.ok THEN Throw(product.error, dimensions)
             ELSE unitsDimensions(unitsNormalized, i + 1, product.value)))

\* Does convert() accept target units of these dimensions?
convertible_always(this, dimensions) == TRUE

convertible(this, dimensions) == equalTo(this.dimensions, dimensions)

\* this.convert(units), units given as a list of ParsedUnit
convert(this, units) ==
    Bind(unitsDimensions(units, 1, Dimensionless), LAMBDA dimensions :
        IF ~dimensions.ok THEN Throw(dimensions.error, NoQuantity)
        ELSE IF ~convertible(this, dimensions.value)
        THEN Throw("Cannot convert units that aren't compatible.", NoQuantity)
        ELSE Return(clone(this, Some(units))))

\* this.toSI(): this itself when it has no unit output
toSI(this) ==
    IF ~isUndefined(this.unitOutput) THEN Return(clone(this, undefined)) ELSE Return(this)

\* The objects a call was made on, as the call leaves them
ObjectsAfter(this, arg) == [this |-> this, arg |-> arg]

\* sub() negates the magnitude of tempQ = y._clone(); y keeps its own
subArgument_negatedInPlace(y) == [y EXCEPT !.magnitude = RSub(Num(0), y.magnitude)]

subArgument(y) == y

\* multiply() applies _multiply to result = this._clone(...); this keeps its own
multiplyReceiver(this, y) == this

\* get() undoes the offset on converter = new Quantity(1, ...); this keeps its own
getReceiver(this) == this

-----------------------------------------------------------------------------
(* Calls on Quantity objects, as the Quantity machine records them *)

NoOptions == Options(undefined, undefined, undefined, undefined, undefined)

QuantityCall(op, this, arg, magnitude, options, result) ==
    [op |-> op, this |-> this, arg |-> arg, magnitude |-> magnitude,
     options |-> options, result |-> result]

NoQuantityCall == QuantityCall("none", NoQuantity, NoQuantity, NaN, NoOptions, Return(NoQuantity))

\* No get() has been made on the current object
NotShown == Throw("none", NoSerializedQuantity)

QIdle ==
    /\ qty = NoQuantity
    /\ qcall = NoQuantityCall
    /\ qops = 0
    /\ qshown = NotShown
    /\ qheap = ObjectsAfter(NoQuantity, NoQuantity)

\* A call of parseUnits: the string given and the outcome
ParseCall(op, unitStr, result) == [op |-> op, unitStr |-> unitStr, result |-> result]

NoParseCall == ParseCall("none", <<>>, Throw("none", <<>>))

PIdle == parsed = NoParseCall

NoSimplifier ==
    [pc |-> "idle", this |-> NoDimensions, unitArray |-> <<>>, remainder |-> NoDimensions,
     useUnits |-> <<>>, useUnitsPower |-> <<>>, iterations |-> 0,
     last |-> [remainder |-> NoDimensions, idx |-> -1, inv |-> 0], units |-> <<>>,
     error |-> ""]

SIdle == simp = NoSimplifier

NoPrinting ==
    [pc |-> "idle", serialized |-> NoSerializedQuantity, r |-> <<>>, plusMinusString |-> <<>>,
     precision |-> 0, text |-> <<>>, error |-> ""]

TIdle == printed = NoPrinting

-----------------------------------------------------------------------------
(* The Dimensions machine: a driver constructs a Dimensions object and     *)
(* applies multiply/invert/pow to it, each result becoming the current     *)
(* object.  dcall records the last call, its operands and its outcome;     *)
(* dops counts the calls made on the object since its construction.        *)

\* Base exponent arrays offered to the constructor (the last one is too short)
BaseInputs ==
    { <<0, 0, 0, 0, 0, 0, 0, 0, 0>>,
      <<1, 1, -2, 0, 0, 0, 0, 0, 0>>,
      <<0, 0, 0, 0, 0, 0, 0, 1>> }

\* Custom name lists offered to the constructor: every contiguous run of
\* NameOrder (sorted, up to all 5 names) and every pair of names (sorted,
\* unsorted or duplicated)
NameInputs ==
    { SubSeq(NameOrder, i, j) : i \in 1..(Len(NameOrder) + 1), j \in 0..Len(NameOrder) }
    \cup { <<NameOrder[i], NameOrder[j]>> : i, j \in 1..Len(NameOrder) }

\* Custom exponents offered to the constructor: k of them, alternating v1, v2
CustomInputs(k, v1, v2) == [i \in 1..k |-> IF i % 2 = 1 THEN v1 ELSE v2]

\* The Dimensions objects a driver passes as the argument of multiply
ArgNameInputs ==
    { SubSeq(NameOrder, 1, j) : j \in 1..4 } \cup { SubSeq(NameOrder, i, 5) : i \in 3..5 }
    \cup { <<"dir", "pax">> }

ArgPool ==
    { Dimensionless,
      NewDimensions(<<1, 1, -2, 0, 0, 0, 0, 0, 0>>, <<>>).value,
      NewDimensions(<<0, 0, 0, 0, 0, 0, 0, 0, 0, 0>>, <<"foo">>).value }
    \cup { NewDimensions(<<0, 0, 0, 0, 0, 0, 0, 0, 0>> \o CustomInputs(Len(names), 1, -1), names).value :
              names \in ArgNameInputs }

PowInputs == { Num(0), Num(2), Rat(1, 2) }

DimCall(op, this, dimensions, names, arg, n, result, flag) ==
    [op |-> op, this |-> this, dimensions |-> dimensions, names |-> names,
     arg |-> arg, n |-> n, result |-> result, flag |-> flag]

NoDimCall ==
    DimCall("none", NoDimensions, <<>>, <<>>, NoDimensions, Num(0), Return(NoDimensions), FALSE)


DIdle ==
    /\ dims = NoDimensions
    /\ dcall = NoDimCall
    /\ dops = 0

Init ==
    /\ DIdle
    /\ QIdle
    /\ PIdle
    /\ SIdle
    /\ TIdle

\* dims = new Dimensions(dimensions, customDimensionNames)
Construct ==
    \E b \in BaseInputs, names \in NameInputs, k \in 0..(Len(NameOrder) + 1),
       v1, v2 \in 0..MaxInputExp :
        /\ dcall.op = "none"
        /\ k \in {Len(names) - 1, Len(names), Len(names) + 1}
        /\ LET dimensions == b \o CustomInputs(k, v1, v2)
               r == NewDimensions(dimensions, names)
           IN  /\ dims' = r.value
               /\ dcall' = DimCall("new", NoDimensions, dimensions, names, NoDimensions, Num(0), r, FALSE)
        /\ dops' = 0
        /\ UNCHANGED <<qty, qcall, qops, qshown, qheap, parsed, simp, printed>>

\* The outcome of a call on the current object: its result becomes the
\* current object; a thrown error leaves the current object as it was
DimResult(op, arg, n, r) ==
    /\ dims' = IF r.ok THEN r.value ELSE dims
    /\ dcall' = DimCall(op, dims, <<>>, <<>>, arg, n, r, FALSE)
    /\ dops' = dops + 1
    /\ UNCHANGED <<qty, qcall, qops, qshown, qheap, parsed, simp, printed>>

\* dims = dims.multiply(y)
Multiply ==
    /\ dims # NoDimensions
    /\ dops < MaxDimOps
    /\ \E y \in ArgPool : DimResult("multiply", y, Num(0), multiply(dims, y))

\* dims = dims.invert()
Invert ==
    /\ dims # NoDimensions
    /\ dops < MaxDimOps
    /\ DimResult("invert", NoDimensions, Num(0), invert(dims))

\* dims = dims.pow(n)
Pow ==
    /\ dims # NoDimensions
    /\ dops < MaxDimOps
    /\ \E n \in PowInputs : DimResult("pow", NoDimensions, n, pow(dims, n))

\* dims.equalTo(y)
EqualTo ==
    /\ dims # NoDimensions
    /\ dops < MaxDimOps
    /\ \E y \in ArgPool :
        dcall' = DimCall("equalTo", dims, <<>>, <<>>, y, Num(0), Return(dims), equalTo(dims, y))
    /\ dops' = dops + 1
    /\ UNCHANGED <<dims, qty, qcall, qops, qshown, qheap, parsed, simp, printed>>

Next == Construct \/ Multiply \/ Invert \/ Pow \/ EqualTo

Spec == Init /\ [][Next]_vars

-----------------------------------------------------------------------------
(* The Quantity machine: a driver constructs a Quantity and applies add,   *)
(* sub or multiply to it with an argument quantity, then possibly convert  *)
(* or toSI, each result becoming the current object; get() reads the       *)
(* current object.  qheap holds the receiver and the argument of the last  *)
(* call as the call leaves them.                                           *)

MagnitudeInputs == { Num(0), Num(5), Rat(-1, 2) }

PlusMinusInputs == { undefined, Some(Num(0)), Some(Rat(1, 2)) }

SignificantFiguresInputs == { undefined, Some(Num(3)) }

FOO_DIMENSION == NewDimensions(<<0, 0, 0, 0, 0, 0, 0, 0, 0, 1>>, <<"foo">>).value
FOO_ZERO_DIMENSION == NewDimensions(<<1, 0, 0, 0, 0, 0, 0, 0, 0, 0>>, <<"foo">>).value

DimensionsInputs == { Dimensionless, MASS_DIMENSION, FOO_DIMENSION, FOO_ZERO_DIMENSION }

UnitsInputs ==
    { <<>>,
      <<ParsedUnit("k", "g", 1)>>,
      <<ParsedUnit("", "g", 1)>>,
      <<ParsedUnit("", "m", 1)>>,
      <<ParsedUnit("", "%", 1)>>,
      <<ParsedUnit("", "degC", 1)>>,
      <<ParsedUnit("k", "degC", 1)>>,
      <<ParsedUnit("", "deltaC", 1)>>,
      <<ParsedUnit("", "_foo", 1)>>,
      <<ParsedUnit("", "m", 2)>>,
      <<ParsedUnit("", "s", 1), ParsedUnit("", "m", -1)>>,
      <<ParsedUnit("", "degC", 1), ParsedUnit("", "m", 1)>> }

\* The (dimensions, units) pairs a driver passes to the constructor
ShapeInputs ==
    { <<undefined, undefined>>, <<Some(MASS_DIMENSION), Some(<<ParsedUnit("", "g", 1)>>)>> }
    \cup { <<Some(d), undefined>> : d \in DimensionsInputs }
    \cup { <<undefined, Some(u)>> : u \in UnitsInputs }

\* The quantities a driver passes as the argument of add, sub and multiply
ArgShapeInputs ==
    { <<undefined, undefined>>,
      <<Some(MASS_DIMENSION), undefined>>,
      <<Some(FOO_ZERO_DIMENSION), undefined>>,
      <<undefined, Some(<<ParsedUnit("k", "g", 1)>>)>>,
      <<undefined, Some(<<ParsedUnit("", "g", 1)>>)>>,
      <<undefined, Some(<<ParsedUnit("", "m", 1)>>)>>,
      <<undefined, Some(<<ParsedUnit("", "%", 1)>>)>>,
      <<undefined, Some(<<ParsedUnit("", "_foo", 1)>>)>> }

\* (0 m +/- 0.5).multiply(2 +/- 0.5), a quantity the public API returns
ZeroLengthProduct ==
    QuantityMultiply(
        NewQuantity(Num(0), Options(undefined, Some(<<ParsedUnit("", "m", 1)>>),
                                    undefined, Some(Rat(1, 2)), undefined)).value,
        NewQuantity(Num(2), Options(undefined, undefined,
                                    undefined, Some(Rat(1, 2)), undefined)).value).value

\* The target units a driver passes to convert
ConvertInputs ==
    { <<>>,
      <<ParsedUnit("", "g", 1)>>,
      <<ParsedUnit("", "m", 1)>>,
      <<ParsedUnit("", "degC", 1)>> }

QuantityPool ==
    { NewQuantity(Num(2), Options(sh[1], sh[2], undefined, pm, undefined)).value :
        sh \in ArgShapeInputs, pm \in { undefined, Some(Rat(1, 2)) } }
    \cup { NewQuantity(Num(2), Options(undefined, Some(<<ParsedUnit("", "g", 1)>>),
                                       undefined, Some(Num(0)), undefined)).value,
           NewQuantity(Num(2), Options(Some(MASS_DIMENSION), undefined,
                                       Some(Num(3)), undefined, undefined)).value,
           NewQuantity(Num(2), Options(undefined, Some(<<ParsedUnit("", "deltaC", 1)>>),
                                       undefined, undefined, undefined)).value,
           ZeroLengthProduct }

QInit ==
    /\ DIdle
    /\ QIdle
    /\ PIdle
    /\ SIdle
    /\ TIdle

\* qty = new Quantity(magnitude, options)
QConstruct ==
    \E magnitude \in MagnitudeInputs, sh \in ShapeInputs,
       sf \in SignificantFiguresInputs, pm \in PlusMinusInputs :
        /\ qcall.op = "none"
        /\ LET options == Options(sh[1], sh[2], sf, pm, undefined)
               r == NewQuantity(magnitude, options)
           IN  /\ qty' = r.value
               /\ qcall' = QuantityCall("new", NoQuantity, NoQuantity, magnitude, options, r)
        /\ qops' = 0
        /\ qshown' = NotShown
        /\ qheap' = ObjectsAfter(NoQuantity, NoQuantity)
        /\ UNCHANGED <<dims, dcall, dops, parsed, simp, printed>>

\* The outcome of a call on the current quantity: the result becomes the
\* current object; a thrown error leaves the current object as it was
QResult(op, y, r) ==
    /\ qty' = IF r.ok THEN r.value ELSE qty
    /\ qcall' = QuantityCall(op, qty, y, NaN, NoOptions, r)
    /\ qops' = qops + 1
    /\ qshown' = NotShown
    /\ UNCHANGED <<dims, dcall, dops, parsed, simp, printed>>

\* A conversion is the last step of a session before the quantity is read
Converted == qcall.op \in {"convert", "toSI"}

\* qty = qty.add(y)
Add ==
    /\ qty # NoQuantity
    /\ ~Converted
    /\ qops < MaxQuantityOps
    /\ \E y \in QuantityPool :
           /\ QResult("add", y, add(qty, y))
           /\ qheap' = ObjectsAfter(qty, y)

\* qty = qty.sub(y)
Sub ==
    /\ qty # NoQuantity
    /\ ~Converted
    /\ qops < MaxQuantityOps
    /\ \E y \in QuantityPool :
           /\ QResult("sub", y, sub(qty, y))
           /\ qheap' = ObjectsAfter(qty, subArgument(y))

\* qty = qty.multiply(y)
QMultiply ==
    /\ qty # NoQuantity
    /\ ~Converted
    /\ qops < MaxQuantityOps
    /\ \E y \in QuantityPool :
           /\ QResult("multiply", y, QuantityMultiply(qty, y))
           /\ qheap' = ObjectsAfter(multiplyReceiver(qty, y), y)

\* qty = qty.convert(units)
Convert ==
    /\ qty # NoQuantity
    /\ ~Converted
    /\ \E units \in ConvertInputs :
           Bind(convert(qty, units), LAMBDA r :
               /\ qty' = IF r.ok THEN r.value ELSE qty
               /\ qcall' = QuantityCall("convert", qty, NoQuantity, NaN,
                                        Options(undefined, Some(units), undefined, undefined, undefined),
                                        r))
    /\ qheap' = ObjectsAfter(qty, NoQuantity)
    /\ qshown' = NotShown
    /\ UNCHANGED <<dims, dcall, dops, qops, parsed, simp, printed>>

\* qty = qty.toSI()
ToSI ==
    /\ qty # NoQuantity
    /\ ~Converted
    /\ qty' = toSI(qty).value
    /\ qcall' = QuantityCall("toSI", qty, NoQuantity, NaN, NoOptions, toSI(qty))
    /\ qheap' = ObjectsAfter(qty, NoQuantity)
    /\ qshown' = NotShown
    /\ UNCHANGED <<dims, dcall, dops, qops, parsed, simp, printed>>

\* qty.get()
Get ==
    /\ qty # NoQuantity
    /\ qshown = NotShown
    /\ qshown' = get(qty)
    /\ qty' = getReceiver(qty)
    /\ UNCHANGED <<dims, dcall, dops, qcall, qops, qheap, parsed, simp, printed>>

QNext == QConstruct \/ Add \/ Sub \/ QMultiply \/ Convert \/ ToSI \/ Get

QSpec == QInit /\ [][QNext]_vars

-----------------------------------------------------------------------------
(* Parsing unit strings.  A JavaScript string is modelled as the sequence   *)
(* of its characters, each a one-character string; MiddleDot stands for the *)
(* character U+22C5.  The value of Number(text) is kept in decimal form      *)
(* m * 10^e, so that whether it is an integer is decided exactly.  Texts of *)
(* the lengths drawn here neither overflow to Infinity nor exceed the        *)
(* precision of a double.                                                    *)

MiddleDot == "<U+22C5>"

\* The characters of a string joined into the string
RECURSIVE Text(_)
Text(str) == IF str = <<>> THEN "" ELSE str[1] \o Text(Tail(str))

\* str.substring(from), from counted from 0
substring(str, from) == SubSeq(str, from + 1, Len(str))

\* A number in decimal form: m * 10^e with m not divisible by 10, or 0
RECURSIVE Decimal(_, _)
Decimal(m, e) ==
    IF m = 0 THEN [nan |-> FALSE, m |-> 0, e |-> 0]
    ELSE IF m % 10 = 0 THEN Decimal(m \div 10, e + 1)
    ELSE [nan |-> FALSE, m |-> m, e |-> e]

NotANumber == [nan |-> TRUE, m |-> 0, e |-> 0]

DecimalDigits == {"0", "1", "2", "3", "4", "5", "6", "7", "8", "9"}

HexDigits == DecimalDigits \cup {"a", "b", "c", "d", "e", "f", "A", "B", "C", "D", "E", "F"}

DigitValue(c) ==
    CASE c = "0" -> 0 [] c = "1" -> 1 [] c = "2" -> 2 [] c = "3" -> 3 [] c = "4" -> 4
      [] c = "5" -> 5 [] c = "6" -> 6 [] c = "7" -> 7 [] c = "8" -> 8 [] c = "9" -> 9
      [] c \in {"a", "A"} -> 10 [] c \in {"b", "B"} -> 11 [] c \in {"c", "C"} -> 12
      [] c \in {"d", "D"} -> 13 [] c \in {"e", "E"} -> 14 [] c \in {"f", "F"} -> 15

AllIn(str, chars) == \A i \in 1..Len(str) : str[i] \in chars

\* The value of a run of digits in the given base
RECURSIVE DigitsValue(_, _)
DigitsValue(digits, base) ==
    IF digits = <<>> THEN 0
    ELSE DigitsValue(SubSeq(digits, 1, Len(digits) - 1), base) * base
             + DigitValue(digits[Len(digits)])

\* 0x or 0X followed by at least one hexadecimal digit (no sign)
isHexLiteral(str) ==
    /\ Len(str) >= 3
    /\ str[1] = "0"
    /\ str[2] \in {"x", "X"}
    /\ AllIn(substring(str, 2), HexDigits)

\* The position of the exponent mark e or E; -1 without one
exponentMark(str) ==
    IF indexOf(str, "e") = -1 THEN indexOf(str, "E")
    ELSE IF indexOf(str, "E") = -1 THEN indexOf(str, "e")
    ELSE IF indexOf(str, "e") < indexOf(str, "E") THEN indexOf(str, "e") ELSE indexOf(str, "E")

unsigned(str) == IF str # <<>> /\ str[1] \in {"+", "-"} THEN Tail(str) ELSE str

isNegative(str) == str # <<>> /\ str[1] = "-"

\* The parts of an unsigned decimal literal: the digits before the point, the
\* digits after it, and the text after the exponent mark
decimalParts(str) ==
    LET mark == exponentMark(str)
        mantissa == IF mark = -1 THEN str ELSE SubSeq(str, 1, mark)
        dot == indexOf(mantissa, ".")
    IN  [ integer |-> IF dot = -1 THEN mantissa ELSE SubSeq(mantissa, 1, dot),
          fraction |-> IF dot = -1 THEN <<>> ELSE substring(mantissa, dot + 1),
          hasExponent |-> mark # -1,
          exponent |-> IF mark = -1 THEN <<>> ELSE substring(str, mark + 1) ]

\* digits[.digits] or .digits, then optionally e or E, a sign and digits
isDecimalLiteral(str) ==
    LET parts == decimalParts(unsigned(str))
    IN  /\ AllIn(parts.integer, DecimalDigits)
        /\ AllIn(parts.fraction, DecimalDigits)
        /\ Len(parts.integer) + Len(parts.fraction) >= 1
        /\ parts.hasExponent =>
               /\ unsigned(parts.exponent) # <<>>
               /\ AllIn(unsigned(parts.exponent), DecimalDigits)

decimalValue(str) ==
    LET parts == decimalParts(unsigned(str))
        mantissa == DigitsValue(parts.integer \o parts.fraction, 10)
        exponent == DigitsValue(unsigned(parts.exponent), 10)
    IN  Decimal(IF isNegative(str) THEN 0 - mantissa ELSE mantissa,
                (IF isNegative(parts.exponent) THEN 0 - exponent ELSE exponent)
                    - Len(parts.fraction))

\* Number(str) for a string without white space: the empty string is 0, then
\* a hexadecimal literal, then a signed decimal literal, anything else NaN
StringToNumber(str) ==
    IF str = <<>> THEN Decimal(0, 0)
    ELSE IF isHexLiteral(str) THEN Decimal(DigitsValue(substring(str, 2), 16), 0)
    ELSE IF isDecimalLiteral(str) THEN decimalValue(str)
    ELSE NotANumber

\* Number.isInteger(n)
NumberIsInteger(n) == ~n.nan /\ n.e >= 0

\* power === 0 || !Number.isInteger(power)
invalidPower(power) == power.m = 0 \/ ~NumberIsInteger(power)

\* The keys of prefixes, as character sequences
prefixKeys ==
    { <<"y">>, <<"z">>, <<"a">>, <<"f">>, <<"p">>, <<"n">>, <<"u">>,
    <<"m">>, <<"c">>, <<"d">>, <<"d", "a">>, <<"h">>, <<"k">>, <<"M">>,
    <<"G">>, <<"T">>, <<"P">>, <<"E">>, <<"Z">>, <<"Y">>, <<"K", "i">>,
    <<"M", "i">>, <<"G", "i">>, <<"T", "i">>, <<"P", "i">>, <<"E", "i">>, <<"Z", "i">>, <<"Y", "i">> }

\* The keys of builtInUnits, as character sequences
builtInUnitKeys ==
    { <<"%">>, <<"p", "p", "m">>, <<"g">>, <<"l", "b">>, <<"m">>,
    <<"i", "n">>, <<"f", "t">>, <<"s">>, <<"m", "i", "n">>, <<"h">>,
    <<"d", "a", "y">>, <<"w", "e", "e", "k">>, <<"y", "r">>, <<"k", "a">>, <<"M", "a">>,
    <<"G", "a">>, <<"K">>, <<"d", "e", "l", "t", "a", "C">>, <<"d", "e", "g", "F">>, <<"d", "e", "g", "C">>,
    <<"c">>, <<"N">>, <<"J">>, <<"W", "h">>, <<"W">>,
    <<"H", "P">>, <<"L">>, <<"p", "p", "h", "p", "d">> }

\* The keys of the entries of builtInUnits that have prefixable: true
prefixableUnitKeys ==
    { <<"g">>, <<"m">>, <<"s">>, <<"K">>, <<"N">>, <<"J">>, <<"W", "h">>,
    <<"W">>, <<"L">> }

\* Properties every object inherits from Object.prototype, which the `in`
\* operator also finds (among others)
ObjectPrototypeKeys == {"constructor", "toString", "valueOf", "hasOwnProperty"}

\* key in prefixes
inPrefixes(key) == \E prefix \in prefixKeys : Text(prefix) = key

\* key in units: an own key of builtInUnits or an inherited property
inUnits(key) ==
    \/ \E unit \in builtInUnitKeys : Text(unit) = key
    \/ key \in ObjectPrototypeKeys

\* units[unit]?.prefixable
prefixable_any(unit) == TRUE

prefixable(unit) == \E u \in prefixableUnitKeys : Text(u) = unit

\* parseSingleUnit(unitStr)
parseSingleUnit(unitStr) ==
    LET caretPos == indexOf(unitStr, "^")
        prefixedUnit == IF caretPos = -1 THEN unitStr ELSE SubSeq(unitStr, 1, caretPos)
        power == IF caretPos = -1 THEN Decimal(1, 0)
                 ELSE StringToNumber(substring(unitStr, caretPos + 1))
        NoParsedUnit == ParsedUnit("", "", NotANumber)
    IN  IF invalidPower(power)
        THEN Throw("Invalid exponent/power on unit \"" \o Text(unitStr) \o "\"", NoParsedUnit)
        ELSE IF inUnits(Text(prefixedUnit))
        THEN Return(ParsedUnit("", Text(prefixedUnit), power))
        ELSE IF /\ Len(prefixedUnit) >= 1
                /\ inPrefixes(prefixedUnit[1])
                /\ prefixable(Text(substring(prefixedUnit, 1)))
        THEN Return(ParsedUnit(prefixedUnit[1], Text(substring(prefixedUnit, 1)), power))
        ELSE IF /\ Len(prefixedUnit) >= 2
                /\ inPrefixes(Text(SubSeq(prefixedUnit, 1, 2)))
                /\ prefixable(Text(substring(prefixedUnit, 2)))
        THEN Return(ParsedUnit(Text(SubSeq(prefixedUnit, 1, 2)),
                               Text(substring(prefixedUnit, 2)), power))
        ELSE Throw("Unable to parse the unit \"" \o Text(unitStr) \o "\"", NoParsedUnit)

\* str.split("/")
RECURSIVE splitSections(_, _)
splitSections(str, section) ==
    IF str = <<>> THEN <<section>>
    ELSE IF str[1] = "/" THEN <<section>> \o splitSections(Tail(str), <<>>)
    ELSE splitSections(Tail(str), Append(section, str[1]))

\* str.trim()
RECURSIVE trim(_)
trim(str) ==
    IF str # <<>> /\ str[1] = " " THEN trim(Tail(str))
    ELSE IF str # <<>> /\ str[Len(str)] = " " THEN trim(SubSeq(str, 1, Len(str) - 1))
    ELSE str

RECURSIVE skipSpaces(_)
skipSpaces(str) == IF str # <<>> /\ str[1] = " " THEN skipSpaces(Tail(str)) ELSE str

\* str.split(UNIT_SEPARATOR): a separator is a run of white space or one
\* middle dot
RECURSIVE splitParts(_, _)
splitParts(str, part) ==
    IF str = <<>> THEN <<part>>
    ELSE IF str[1] = MiddleDot THEN <<part>> \o splitParts(Tail(str), <<>>)
    ELSE IF str[1] = " " THEN <<part>> \o splitParts(skipSpaces(str), <<>>)
    ELSE splitParts(Tail(str), Append(part, str[1]))

\* parts.map(parseSingleUnit): the parsed units, or the first error thrown
RECURSIVE parseParts(_, _, _)
parseParts(parts, i, done) ==
    IF i > Len(parts) THEN Return(done)
    ELSE Bind(parseSingleUnit(parts[i]), LAMBDA u :
        IF ~u.ok THEN Throw(u.error, <<>>)
        ELSE parseParts(parts, i + 1, Append(done, u.value)))

\* x.power *= -1 on the units of the denominator
denominatorPower(power) == [power EXCEPT !.m = 0 - power.m]

negatePowers(units) ==
    [i \in 1..Len(units) |-> [units[i] EXCEPT !.power = denominatorPower(units[i].power)]]

\* parseUnits(unitStr)
parseUnits(unitStr) ==
    Bind(splitSections(unitStr, <<>>), LAMBDA sections :
        IF Len(sections) > 2
        THEN Throw("Cannot parse a unit with 2 or more \"/\" symbols: got \""
                       \o Text(unitStr) \o "\"", <<>>)
        ELSE Bind(parseParts(splitParts(trim(sections[1]), <<>>), 1, <<>>),
                  LAMBDA numeratorParts :
            IF ~numeratorParts.ok THEN numeratorParts
            ELSE IF Len(sections) < 2 THEN numeratorParts
            ELSE Bind(parseParts(splitParts(trim(sections[2]), <<>>), 1, <<>>),
                      LAMBDA denominatorParts :
                IF ~denominatorParts.ok THEN denominatorParts
                ELSE Return(numeratorParts.value \o negatePowers(denominatorParts.value)))))

-----------------------------------------------------------------------------
(* The parser machine: a driver parses one unit string; parsed records the  *)
(* string and the outcome.                                                  *)

\* The characters the exponent texts are drawn from
ExponentCharacters == {"0", "2", "5", ".", "e", "x", "-", "+", "p"}

ExponentTexts == UNION { [1..n -> ExponentCharacters] : n \in 0..MaxExponentLen }

\* The unit strings a driver parses: a token with every exponent text, in the
\* numerator and in the denominator, and strings without exponents
UnitStringInputs ==
    { <<"m", "m", "^">> \o t : t \in ExponentTexts }
    \cup { <<"s", "/", "k", "g", "^">> \o t : t \in ExponentTexts }
    \cup { prefix \o unit : prefix \in prefixKeys, unit \in prefixableUnitKeys }
    \cup { <<"m", "l", "b">>, <<"n", "i", "n">>, <<"k", "h">>, <<"K", "i", "m">>, <<"G", "i", "m">>,
           <<"M", "f", "t">>, <<"m", "m", "i", "n">>, <<"k", "k", "a">>, <<"m", "i", "n">>, <<"k", "a">>,
           <<"c", "d">>, <<"m", "d", "e", "g", "C">>, <<"K", "d", "e", "g">>, <<"p", "p", "h", "p", "d">>,
           <<"t", "o", "S", "t", "r", "i", "n", "g">>, <<"k", "t", "o", "S", "t", "r", "i", "n", "g">> }
    \cup { <<>>, <<"m">>, <<"k", "g">>, <<"f", "o", "o">>, <<"k", "%">>,
           <<"k", "g", " ", " ", "m", "/", "s", "^", "2">>,
           <<"k", "g", MiddleDot, "m", " ", "/", " ", "s", "^", "2", " ", "K">>,
           <<"m", "/", "s", "/", "s">>,
           <<"m", " ", MiddleDot, " ", "s">> }

PInit ==
    /\ DIdle
    /\ QIdle
    /\ PIdle
    /\ SIdle
    /\ TIdle

\* parseUnits(unitStr)
ParseUnits ==
    /\ parsed.op = "none"
    /\ \E unitStr \in UnitStringInputs :
           parsed' = ParseCall("parseUnits", unitStr, parseUnits(unitStr))
    /\ UNCHANGED <<dims, dcall, dops, qty, qcall, qops, qshown, qheap, simp, printed>>

PNext == ParseUnits

PSpec == PInit /\ [][PNext]_vars

-----------------------------------------------------------------------------
(* The simplifier machine: a driver calls pickUnitsFromList on a quantity   *)
(* of some dimensions with some list of units; each turn of the while loop  *)
(* of pickUnitsFromListIterativeReduction is one step.  simp holds the      *)
(* locals of the call, the number of turns taken, what the last turn        *)
(* started from and selected, and the outcome.                               *)

Dim3(mass, length, time) ==
    NewDimensions(<<mass, length, time, 0, 0, 0, 0, 0, 0>>, <<>>).value

CURRENT_DIMENSION == NewDimensions(<<0, 0, 0, 0, 1, 0, 0, 0, 0>>, <<>>).value
CHARGE_DIMENSION == NewDimensions(<<0, 0, 1, 0, 1, 0, 0, 0, 0>>, <<>>).value
NRGY_DIMENSIONS == Dim3(1, 2, -2)
VOLM_DIMENSIONS == Dim3(0, 3, 0)
FREQUENCY_DIMENSION == Dim3(0, 0, -1)
ZAP_DIMENSION == NewDimensions(<<0, 0, 0, 0, 0, 0, 0, 0, 0, 1>>, <<"zap">>).value
FOUR_CUSTOM_DIMENSIONS ==
    NewDimensions(<<0, 0, 0, 0, 0, 0, 0, 0, 0, 1, 1, 1, 1>>, <<"bar", "dir", "foo", "pax">>).value

\* The dimensions of the quantities the driver simplifies
TargetInputs ==
    { Dim3(mass, length, time) : mass \in -MaxTargetExp..MaxTargetExp,
                                 length \in -MaxTargetExp..MaxTargetExp,
                                 time \in -MaxTargetExp..MaxTargetExp }
    \cup { CURRENT_DIMENSION, CHARGE_DIMENSION, FOO_DIMENSION, FOO_ZERO_DIMENSION,
           FOUR_CUSTOM_DIMENSIONS }

\* The lists of units the driver offers, as their dimensions: the SI basis
\* of get(), coulomb and second, joule, litre and metre, hertz and second,
\* lists with custom units, percent alone and the empty list
BasisInputs ==
    { [i \in 1..Len(baseSIUnits) |-> getUnitData(baseSIUnits[i].unit).d],
      <<CHARGE_DIMENSION, TIME_DIMENSION>>,
      <<NRGY_DIMENSIONS, VOLM_DIMENSIONS, DIST_DIMENSION>>,
      <<FREQUENCY_DIMENSION, TIME_DIMENSION>>,
      <<FOO_DIMENSION, MASS_DIMENSION>>,
      <<ZAP_DIMENSION, MASS_DIMENSION>>,
      <<ZAP_DIMENSION, FOUR_CUSTOM_DIMENSIONS>>,
      <<FOUR_CUSTOM_DIMENSIONS, ZAP_DIMENSION>>,
      <<Dimensionless>>,
      <<>> }

NoCandidate == [remainder |-> NoDimensions, idx |-> -1, inv |-> 0]

Simplifier(pc, this, unitArray, remainder, picked, iterations, last, units, error) ==
    [pc |-> pc, this |-> this, unitArray |-> unitArray, remainder |-> remainder,
     useUnits |-> picked.useUnits, useUnitsPower |-> picked.useUnitsPower,
     iterations |-> iterations, last |-> last, units |-> units, error |-> error]

SInit ==
    /\ DIdle
    /\ QIdle
    /\ PIdle
    /\ SIdle
    /\ TIdle

\* this.pickUnitsFromList(unitList) is called: the locals before the loop
PickUnits ==
    /\ simp.pc = "idle"
    /\ \E this \in TargetInputs, unitArray \in BasisInputs :
           simp' = Simplifier("loop", this, unitArray, this, NoUnitsPicked, 0,
                              NoCandidate, <<>>, "")
    /\ UNCHANGED <<dims, dcall, dops, qty, qcall, qops, qshown, qheap, parsed, printed>>

\* One turn of the while loop: remainder.dimensionality > 0
Reduce ==
    /\ simp.pc = "loop"
    /\ dimensionality(simp.remainder) > 0
    /\ \E step \in { reductionStep(simp.remainder, simp.unitArray,
                                     [useUnits |-> simp.useUnits,
                                      useUnitsPower |-> simp.useUnitsPower]) } :
           simp' =
               IF ~step.ok
               THEN [simp EXCEPT !.pc = "thrown", !.error = step.error,
                                 !.iterations = @ + 1,
                                 !.last = [remainder |-> simp.remainder,
                                           idx |-> -1, inv |-> 0]]
               ELSE [simp EXCEPT !.remainder = step.value.remainder,
                                 !.useUnits = step.value.picked.useUnits,
                                 !.useUnitsPower = step.value.picked.useUnitsPower,
                                 !.iterations = @ + 1,
                                 !.last = [remainder |-> simp.remainder,
                                           idx |-> step.value.best.idx,
                                           inv |-> step.value.best.inv]]
    /\ UNCHANGED <<dims, dcall, dops, qty, qcall, qops, qshown, qheap, parsed, printed>>

\* The loop ends and pickUnitsFromList returns its list of units
ReturnUnits ==
    /\ simp.pc = "loop"
    /\ ~(dimensionality(simp.remainder) > 0)
    /\ simp' = [simp EXCEPT !.pc = "returned",
                            !.units = unitsToUse(simp.unitArray,
                                                 [useUnits |-> simp.useUnits,
                                                  useUnitsPower |-> simp.useUnitsPower])]
    /\ UNCHANGED <<dims, dcall, dops, qty, qcall, qops, qshown, qheap, parsed, printed>>

SNext == PickUnits \/ Reduce \/ ReturnUnits

SSpec == SInit /\ [][SNext]_vars

\* The call runs to its end once started: each step of it is taken
SFairSpec == SSpec /\ WF_vars(Reduce) /\ WF_vars(ReturnUnits)

-----------------------------------------------------------------------------
(* Printing a quantity.  A string is the sequence of its characters, as in  *)
(* the parser.  The numbers printed are finite decimals, held exactly; the  *)
(* numbers drawn are those whose nearest double rounds, at every precision  *)
(* asked for, as the decimal itself does (ties upwards).                    *)

RECURSIVE Pow10(_)
Pow10(n) == IF n = 0 THEN 1 ELSE 10 * Pow10(n - 1)

DigitCharacters == <<"0", "1", "2", "3", "4", "5", "6", "7", "8", "9">>

\* The decimal digits of a natural number
RECURSIVE NaturalDigits(_)
NaturalDigits(n) ==
    IF n < 10 THEN <<DigitCharacters[n + 1]>>
    ELSE Append(NaturalDigits(n \div 10), DigitCharacters[(n % 10) + 1])

Zeros(n) == [i \in 1..n |-> "0"]

\* The number of decimals of a finite decimal of denominator den
RECURSIVE decimalsOf(_, _)
decimalsOf(den, k) == IF Pow10(k) % den = 0 THEN k ELSE decimalsOf(den, k + 1)

\* |x| as m * 10^e with m not divisible by 10, for a finite decimal x
DecimalOfNumber(x) ==
    Decimal(Abs(x.num) * (Pow10(decimalsOf(x.den, 0)) \div x.den), 0 - decimalsOf(x.den, 0))

\* digits, "e", the sign and the digits of the exponent e
exponential(digits, e) ==
    (IF Len(digits) = 1 THEN digits ELSE <<digits[1], ".">> \o Tail(digits))
        \o <<"e", IF e >= 0 THEN "+" ELSE "-">> \o NaturalDigits(Abs(e))

\* Number::toString(x) in radix 10
numberToString(x) ==
    IF isNaN(x) THEN <<"N", "a", "N">>
    ELSE IF isInf(x)
    THEN (IF x.num < 0 THEN <<"-">> ELSE <<>>) \o <<"I", "n", "f", "i", "n", "i", "t", "y">>
    ELSE IF isZero(x) THEN <<"0">>
    ELSE LET digits == NaturalDigits(DecimalOfNumber(x).m)
             k == Len(digits)
             n == k + DecimalOfNumber(x).e
         IN  (IF x.num < 0 THEN <<"-">> ELSE <<>>) \o
             (IF k <= n /\ n <= 21 THEN digits \o Zeros(n - k)
              ELSE IF 0 < n /\ n <= 21
              THEN SubSeq(digits, 1, n) \o <<".">> \o SubSeq(digits, n + 1, k)
              ELSE IF -6 < n /\ n <= 0 THEN <<"0", ".">> \o Zeros(0 - n) \o digits
              ELSE exponential(digits, n - 1))

\* The p digits of |x| rounded to p significant digits and the exponent of
\* the first of them
significantDigits(x, p) ==
    IF isZero(x) THEN [digits |-> Zeros(p), e |-> 0]
    ELSE LET m == DecimalOfNumber(x).m
             k == Len(NaturalDigits(m))
             n == IF p >= k THEN m * Pow10(p - k)
                  ELSE (m + 5 * Pow10(k - p - 1)) \div Pow10(k - p)
         IN  IF n = Pow10(p)
             THEN [digits |-> NaturalDigits(Pow10(p - 1)), e |-> k + DecimalOfNumber(x).e]
             ELSE [digits |-> NaturalDigits(n), e |-> k + DecimalOfNumber(x).e - 1]

\* x.toPrecision(p)
toPrecision(x, p) ==
    IF isNaN(x) \/ isInf(x) THEN Return(numberToString(x))
    ELSE IF p < 1 \/ p > 100
    THEN Throw("RangeError: toPrecision() argument must be between 1 and 100", <<>>)
    ELSE LET digits == significantDigits(x, p).digits
             e == significantDigits(x, p).e
         IN  Return((IF x.num < 0 THEN <<"-">> ELSE <<>>) \o
                    (IF e < -6 \/ e >= p THEN exponential(digits, e)
                     ELSE IF e = p - 1 THEN digits
                     ELSE IF e >= 0
                     THEN SubSeq(digits, 1, e + 1) \o <<".">> \o SubSeq(digits, e + 2, p)
                     ELSE <<"0", ".">> \o Zeros(0 - (e + 1)) \o digits))

\* The loop over the characters of plusMinusString, from character i on
RECURSIVE plusMinusLoop(_, _, _)
plusMinusLoop(plusMinus, plusMinusString, i) ==
    IF ~(i < Len(plusMinusString)) THEN plusMinusString
    ELSE IF plusMinusString[i + 1] = "0" \/ plusMinusString[i + 1] = "."
    THEN plusMinusLoop(plusMinus, plusMinusString, i + 1)
    ELSE IF plusMinusString[i + 1] = "1" THEN plusMinusString
    ELSE plusMinusLoop(plusMinus, toPrecision(plusMinus, 1).value, i + 1)

countDecimalPlaces(str) ==
    IF "." \in Range(str) THEN Len(str) - indexOf(str, ".") + 1 ELSE 0

-----------------------------------------------------------------------------
(* The printing machine: a driver constructs a quantity and calls           *)
(* toString() on it; each turn of the loop that trims the magnitude is one  *)
(* step.  printed holds the locals of the call and its outcome.             *)

PrintedMagnitudeInputs ==
    { Num(0), Num(5), Num(500), Num(515), Rat(31, 2), Rat(1031, 2), Rat(1, 2), Rat(-1, 2),
      Rat(1, 20), Rat(24, 25), Rat(381207, 1000000), Rat(452, 100), Rat(5, 10000000) }

PrintedPlusMinusInputs ==
    { undefined, Some(Num(0)), Some(Rat(2, 100)), Some(Rat(1, 2)), Some(Rat(12345, 10000)),
      Some(Num(2)), Some(Num(20)), Some(Rat(12315, 1000)), Some(Rat(2345, 1000)),
      Some(Rat(25, 1000000)) }

PrintedSignificantFiguresInputs == { undefined, Some(Num(2)) }

PrintedUnitsInputs == { undefined, Some(<<ParsedUnit("", "m", 1)>>) }

Printing(pc, serialized, r, plusMinusString, precision, text, error) ==
    [pc |-> pc, serialized |-> serialized, r |-> r, plusMinusString |-> plusMinusString,
     precision |-> precision, text |-> text, error |-> error]

TInit ==
    /\ DIdle
    /\ QIdle
    /\ PIdle
    /\ SIdle
    /\ TIdle

\* new Quantity(magnitude, options).toString(), up to the loop that trims
\* the magnitude; without uncertainty, or with significantFigures, the call
\* returns
QuantityToString ==
    /\ printed.pc = "idle"
    /\ \E magnitude \in PrintedMagnitudeInputs, plusMinus \in PrintedPlusMinusInputs,
          significantFigures \in PrintedSignificantFiguresInputs, units \in PrintedUnitsInputs :
         \E serialized \in { get(NewQuantity(magnitude,
                                 Options(undefined, units, significantFigures, plusMinus,
                                         undefined)).value).value } :
         \E r \in { IF isUndefined(serialized.significantFigures)
                    THEN numberToString(serialized.magnitude)
                    ELSE toPrecision(serialized.magnitude,
                                     serialized.significantFigures[1].num).value } :
           IF ~Truthy(serialized.plusMinus)
           THEN printed' = Printing("returned", serialized, r, <<>>, 0, r, "")
           ELSE \E plusMinusString \in
                    { plusMinusLoop(serialized.plusMinus[1],
                                    toPrecision(serialized.plusMinus[1], 2).value, 0) } :
                  IF Truthy(serialized.significantFigures)
                  THEN printed' = Printing("returned", serialized, r, plusMinusString, 0,
                                           r \o <<"±">> \o plusMinusString, "")
                  ELSE printed' = Printing("trim", serialized, r, plusMinusString, Len(r),
                                           <<>>, "")
    /\ UNCHANGED <<dims, dcall, dops, qty, qcall, qops, qshown, qheap, parsed, simp>>

\* One turn of the loop: r = serialized.magnitude.toPrecision(--precision)
Trim ==
    /\ printed.pc = "trim"
    /\ countDecimalPlaces(printed.r) > countDecimalPlaces(printed.plusMinusString)
    /\ \E trimmed \in { toPrecision(printed.serialized.magnitude, printed.precision - 1) } :
           printed' = IF trimmed.ok
                      THEN [printed EXCEPT !.precision = @ - 1, !.r = trimmed.value]
                      ELSE [printed EXCEPT !.precision = @ - 1, !.pc = "thrown",
                                           !.error = trimmed.error]
    /\ UNCHANGED <<dims, dcall, dops, qty, qcall, qops, qshown, qheap, parsed, simp>>

\* The loop ends and toString() returns
ReturnString ==
    /\ printed.pc = "trim"
    /\ ~(countDecimalPlaces(printed.r) > countDecimalPlaces(printed.plusMinusString))
    /\ printed' = [printed EXCEPT !.pc = "returned",
                                  !.text = printed.r \o <<"±">> \o printed.plusMinusString]
    /\ UNCHANGED <<dims, dcall, dops, qty, qcall, qops, qshown, qheap, parsed, simp>>

TNext == QuantityToString \/ Trim \/ ReturnString

TSpec == TInit /\ [][TNext]_vars

-----------------------------------------------------------------------------
(* Properties of Dimensions *)

\* The exponent of a custom name in a Dimensions, read off the name list
ExpOf(d, name) ==
    IF \E i \in 1..Len(d.customDimensionNames) : d.customDimensionNames[i] = name
    THEN d.dimensions[numBasicDimensions
                      + (CHOOSE i \in 1..Len(d.customDimensionNames) : d.customDimensionNames[i] = name)]
    ELSE 0

NameSet(d) == Range(d.customDimensionNames)

StrictlyAscending(names) ==
    \A i, j \in 1..Len(names) : i < j => NameRank(names[i]) < NameRank(names[j])

\* C1: a.multiply(b) and b.multiply(a) either both throw or both return, and
\* then the two results are equalTo each other.
C1_MultiplyCommutes ==
    dcall.op = "multiply" =>
        LET ab == dcall.result
            ba == multiply(dcall.arg, dcall.this)
        IN  /\ ab.ok = ba.ok
            /\ ab.ok => equalTo(ab.value, ba.value) /\ equalTo(ba.value, ab.value)

\* C1 witness: a product of two operands with different, non-empty name lists
C1_Witness ==
    /\ dcall.op = "multiply"
    /\ dcall.result.ok
    /\ Len(dcall.this.customDimensionNames) > 0
    /\ Len(dcall.arg.customDimensionNames) > 0
    /\ NameSet(dcall.this) \ NameSet(dcall.arg) # {}
    /\ NameSet(dcall.arg) \ NameSet(dcall.this) # {}

\* C2: equalTo returns true exactly when the 9 base exponents are pairwise
\* equal and every name of either operand has the same exponent in both,
\* an absent name counting as exponent 0.
C2_EqualToCharacterised ==
    dcall.op = "equalTo" =>
        (dcall.flag <=>
            /\ \A i \in 1..numBasicDimensions : dcall.this.dimensions[i] = dcall.arg.dimensions[i]
            /\ \A name \in NameSet(dcall.this) \cup NameSet(dcall.arg) :
                   ExpOf(dcall.this, name) = ExpOf(dcall.arg, name))

\* C2 witness: a vector carrying a name with exponent 0 is equalTo one that omits it
C2_Witness ==
    /\ dcall.op = "equalTo"
    /\ dcall.flag
    /\ NameSet(dcall.this) # NameSet(dcall.arg)

\* C3: multiply throws when the union of the operands' custom names has more
\* than 4 names and returns otherwise; the result has the elementwise sums of
\* the base exponents, the sum of the operands' exponents for each custom
\* name, and its names in ascending order.
C3_MultiplyResult ==
    dcall.op = "multiply" =>
        LET union == NameSet(dcall.this) \cup NameSet(dcall.arg)
            r == dcall.result
        IN  /\ Cardinality(union) > 4 => ~r.ok
            /\ Cardinality(union) <= 4 =>
                /\ r.ok
                /\ NameSet(r.value) = union
                /\ StrictlyAscending(r.value.customDimensionNames)
                /\ Len(r.value.dimensions) = numBasicDimensions + Cardinality(union)
                /\ \A i \in 1..numBasicDimensions :
                       r.value.dimensions[i] = dcall.this.dimensions[i] + dcall.arg.dimensions[i]
                /\ \A name \in union :
                       ExpOf(r.value, name) = ExpOf(dcall.this, name) + ExpOf(dcall.arg, name)

\* C3 witness: a multiply that throws because the union has 5 names, although
\* neither operand has more than 4
C3_Witness ==
    /\ dcall.op = "multiply"
    /\ ~dcall.result.ok
    /\ Len(dcall.this.customDimensionNames) <= 4
    /\ Len(dcall.arg.customDimensionNames) <= 4
    /\ Cardinality(NameSet(dcall.this) \cup NameSet(dcall.arg)) = 5

\* The conditions the data model states for a Dimensions value
WellFormed(dimensions, names) ==
    /\ Len(dimensions) = numBasicDimensions + Len(names)
    /\ StrictlyAscending(names)
    /\ Len(names) <= 4

\* C4: every Dimensions value has 9 base exponents, one exponent per custom
\* name, strictly ascending names and at most 4 of them; a construction that
\* would violate this throws.
C4_DimensionsWellFormed ==
    /\ dims # NoDimensions => WellFormed(dims.dimensions, dims.customDimensionNames)
    /\ dcall.op = "new" /\ ~WellFormed(dcall.dimensions, dcall.names) => ~dcall.result.ok

-----------------------------------------------------------------------------
(* Properties of Quantity arithmetic *)

\* Two Dimensions have the same exponents, an absent custom name counting as 0
SameExponents(a, b) ==
    /\ \A i \in 1..numBasicDimensions : a.dimensions[i] = b.dimensions[i]
    /\ \A name \in NameSet(a) \cup NameSet(b) : ExpOf(a, name) = ExpOf(b, name)

HasNoSignificantFigures(q) == q.significantFigures = undefined

\* The units of a display-unit hint, <<>> when the hint is absent
HintUnits(q) == IF q.unitOutput = undefined THEN <<>> ELSE q.unitOutput[1]

IsNumber(a) == a.den # 0

\* C5: add throws "Cannot add quanitites with different units." and produces
\* no quantity whenever the operands' dimensions differ; when they agree and
\* neither operand has significantFigures it returns the sum of the canonical
\* magnitudes with the receiver's dimensions.
C5_AddRequiresSameDimensions ==
    qcall.op = "add" =>
        /\ ~SameExponents(qcall.this.dimensions, qcall.arg.dimensions) =>
               /\ ~qcall.result.ok
               /\ qcall.result.error = "Cannot add quanitites with different units."
               /\ qcall.result.value = NoQuantity
               /\ qty = qcall.this
        /\ ( /\ SameExponents(qcall.this.dimensions, qcall.arg.dimensions)
             /\ HasNoSignificantFigures(qcall.this)
             /\ HasNoSignificantFigures(qcall.arg) ) =>
               /\ qcall.result.ok
               /\ qty = qcall.result.value
               /\ qty.magnitude = RAdd(qcall.this.magnitude, qcall.arg.magnitude)
               /\ qty.dimensions = qcall.this.dimensions

\* C5 witness: an add of two quantities of different dimensions has thrown
C5_Witness ==
    /\ qcall.op = "add"
    /\ ~qcall.result.ok
    /\ qcall.result.error = "Cannot add quanitites with different units."
    /\ qcall.this.unitOutput # undefined
    /\ qcall.arg.unitOutput # undefined

\* C6: for x and y of equal dimensions and without significantFigures,
\* x.add(y).equals(y.add(x)): the two sums have the same dimensions, magnitude
\* and uncertainty, whichever operand carries a hint or an uncertainty.
C6_AddCommutes ==
    ( /\ qcall.op = "add"
      /\ SameExponents(qcall.this.dimensions, qcall.arg.dimensions)
      /\ HasNoSignificantFigures(qcall.this) /\ HasNoSignificantFigures(qcall.arg) ) =>
        LET xy == qcall.result
            yx == add(qcall.arg, qcall.this)
        IN  /\ xy.ok /\ yx.ok
            /\ equals(xy.value, yx.value)
            /\ equals(yx.value, xy.value)

\* C7: the uncertainty of x.add(y) and of x.sub(y) is the sum of the operands'
\* uncertainties, a missing one counting as 0, and is absent only if both
\* operands' uncertainties are absent.
C7_AddUncertainty ==
    (qcall.op \in {"add", "sub"} /\ qcall.result.ok) =>
        /\ qcall.result.value.plusMinus = undefined <=>
               (qcall.this.plusMinus = undefined /\ qcall.arg.plusMinus = undefined)
        /\ qcall.result.value.plusMinus # undefined =>
               qcall.result.value.plusMinus[1] =
                   RAdd(OrElse(qcall.this.plusMinus, Num(0)), OrElse(qcall.arg.plusMinus, Num(0)))

\* C8: when the receiver x has a display-unit hint, get() of x.add(y) reports
\* exactly x's units, whatever y's units are, and the magnitude in those units.
C8_SumShownInReceiverUnits ==
    ( /\ qcall.op = "add" /\ qcall.result.ok
      /\ qcall.this.unitOutput # undefined
      /\ qshown # NotShown ) =>
        LET shownThis == get(qcall.this)
        IN  /\ qshown.ok = shownThis.ok
            /\ qshown.ok =>
                /\ qshown.value.units = qcall.this.unitOutput[1]
                /\ qshown.value.units = shownThis.value.units
                /\ ( qcall.this.unitOutput[1] = <<ParsedUnit("k", "g", 1)>>
                     /\ qcall.this.magnitude = Num(5)
                     /\ qcall.arg.magnitude = Rat(2, 1000) ) =>
                       qshown.value.magnitude = Rat(5002, 1000)

\* C8 witness: (5 kg).add(2 g) has been read with get()
C8_Witness ==
    /\ qcall.op = "add" /\ qcall.result.ok
    /\ qshown.ok
    /\ qcall.this.unitOutput = Some(<<ParsedUnit("k", "g", 1)>>)
    /\ qcall.arg.unitOutput = Some(<<ParsedUnit("", "g", 1)>>)
    /\ qcall.this.magnitude = Num(5)
    /\ qshown.value.magnitude = Rat(5002, 1000)

\* The union of two hints' units, de-duplicated by unit symbol, in
\* first-seen order
UnionOfHints(h1, h2) ==
    h1 \o SelectSeq(h2, LAMBDA u : \A k \in 1..Len(h1) : h1[k].unit # u.unit)

C10_MultiplyResult ==
    ( /\ qcall.op = "multiply" /\ qcall.result.ok
      /\ IsNumber(qcall.this.magnitude) /\ qcall.this.magnitude # Num(0)
      /\ IsNumber(qcall.arg.magnitude) /\ qcall.arg.magnitude # Num(0) ) =>
        LET x == qcall.this
            y == qcall.arg
            z == qcall.result.value
        IN  /\ z.magnitude = RMul(x.magnitude, y.magnitude)
            /\ multiply(x.dimensions, y.dimensions).ok
            /\ z.dimensions = multiply(x.dimensions, y.dimensions).value
            /\ (x.plusMinus = undefined /\ y.plusMinus = undefined) => z.plusMinus = undefined
            /\ (x.plusMinus # undefined /\ y.plusMinus = undefined) =>
                   z.plusMinus = Some(RMul(x.plusMinus[1], y.magnitude))
            /\ (x.plusMinus = undefined /\ y.plusMinus # undefined) =>
                   z.plusMinus = Some(RMul(y.plusMinus[1], x.magnitude))
            /\ (x.plusMinus # undefined /\ y.plusMinus # undefined) =>
                   z.plusMinus = Some(RAdd(RMul(x.plusMinus[1], y.magnitude),
                                           RMul(y.plusMinus[1], x.magnitude)))

\* C10 witness: a product of two quantities that both carry a nonzero uncertainty
C10_Witness ==
    /\ qcall.op = "multiply" /\ qcall.result.ok
    /\ qcall.this.plusMinus # undefined /\ qcall.this.plusMinus # Some(Num(0))
    /\ qcall.arg.plusMinus # undefined /\ qcall.arg.plusMinus # Some(Num(0))
    /\ qcall.this.magnitude # Num(0)
    /\ qcall.this.magnitude # qcall.arg.magnitude
    /\ qcall.result.value.plusMinus # undefined

-----------------------------------------------------------------------------
(* Properties of the unit output of products *)

\* The registry dimension of a unit of a hint, not raised to its power
UnitDimension(u) == getUnitData(u.unit).d

\* The hint is one unit whose registry dimension is dimensionless
IsOneDimensionlessUnit(h) ==
    Len(h) = 1 /\ \A i \in 1..numBasicDimensions + Len(UnitDimension(h[1]).customDimensionNames) :
                      UnitDimension(h[1]).dimensions[i] = 0

BothHaveHints(x, y) == x.unitOutput # undefined /\ y.unitOutput # undefined

\* C11: in x.multiply(y) with both operands hinted, when one operand's hint is
\* a single dimensionless unit the product's hint is the other operand's
\* hint, unchanged: same units, prefixes and powers in the same order.
C11_DimensionlessHintYields ==
    ( /\ qcall.op = "multiply" /\ qcall.result.ok
      /\ BothHaveHints(qcall.this, qcall.arg) ) =>
        /\ IsOneDimensionlessUnit(HintUnits(qcall.this)) =>
               HintUnits(qcall.result.value) = HintUnits(qcall.arg)
        /\ ( /\ ~IsOneDimensionlessUnit(HintUnits(qcall.this))
             /\ IsOneDimensionlessUnit(HintUnits(qcall.arg)) ) =>
               HintUnits(qcall.result.value) = HintUnits(qcall.this)

\* C11 witness: (x %).multiply(2 g) has returned a product hinted in g
C11_Witness ==
    /\ qcall.op = "multiply" /\ qcall.result.ok
    /\ HintUnits(qcall.this) = <<ParsedUnit("", "%", 1)>>
    /\ HintUnits(qcall.arg) = <<ParsedUnit("", "g", 1)>>
    /\ HintUnits(qcall.result.value) = <<ParsedUnit("", "g", 1)>>

\* One unit u merged into the hint h by dimension: added into the first entry
\* of the same registry dimension, else appended
MergedOne(h, u) ==
    IF \E k \in 1..Len(h) : SameExponents(UnitDimension(h[k]), UnitDimension(u))
    THEN LET first == CHOOSE k \in 1..Len(h) :
                          /\ SameExponents(UnitDimension(h[k]), UnitDimension(u))
                          /\ \A j \in 1..(k - 1) :
                                 ~SameExponents(UnitDimension(h[j]), UnitDimension(u))
         IN  [k \in 1..Len(h) |->
                 IF k = first THEN ParsedUnit(h[k].prefix, h[k].unit, h[k].power + u.power)
                 ELSE h[k]]
    ELSE h \o <<u>>

\* The units of y merged into the hint x one after the other
RECURSIVE MergedByDimension(_, _)
MergedByDimension(x, y) ==
    IF y = <<>> THEN x
    ELSE MergedOne(MergedByDimension(x, SubSeq(y, 1, Len(y) - 1)), y[Len(y)])

\* C12: in x.multiply(y) with both operands hinted and neither hint a single
\* dimensionless unit, the product's hint is x's hint with y's units merged in
\* by dimension, without the entries whose power has become 0.
C12_HintsMergedByDimension ==
    ( /\ qcall.op = "multiply" /\ qcall.result.ok
      /\ BothHaveHints(qcall.this, qcall.arg)
      /\ ~IsOneDimensionlessUnit(HintUnits(qcall.this))
      /\ ~IsOneDimensionlessUnit(HintUnits(qcall.arg)) ) =>
        /\ HintUnits(qcall.result.value) =
               SelectSeq(MergedByDimension(HintUnits(qcall.this), HintUnits(qcall.arg)),
                         LAMBDA u : u.power # 0)
        /\ \A k \in 1..Len(HintUnits(qcall.result.value)) :
               HintUnits(qcall.result.value)[k].power # 0

\* C12 witness: (s/m).multiply(m) has returned a product hinted in s alone
C12_Witness ==
    /\ qcall.op = "multiply" /\ qcall.result.ok
    /\ HintUnits(qcall.this) = <<ParsedUnit("", "s", 1), ParsedUnit("", "m", -1)>>
    /\ HintUnits(qcall.arg) = <<ParsedUnit("", "m", 1)>>
    /\ HintUnits(qcall.result.value) = <<ParsedUnit("", "s", 1)>>

-----------------------------------------------------------------------------
(* Properties of significantFigures *)

C14_ConstructWithSignificantFigures ==
    ( /\ qcall.op = "new"
      /\ qcall.options.units # undefined
      /\ qcall.options.significantFigures # undefined
      /\ NewQuantity(qcall.magnitude,
                     [qcall.options EXCEPT !.significantFigures = undefined]).ok ) =>
        /\ qcall.result.ok
        /\ qty.significantFigures = qcall.options.significantFigures
        /\ qshown # NotShown =>
               /\ qshown.ok
               /\ qshown.value.significantFigures = qcall.options.significantFigures

-----------------------------------------------------------------------------
(* Properties of convert and toSI *)

\* The product of the target units' dimensions raised to their powers
RECURSIVE TargetDimensions(_)
TargetDimensions(units) ==
    IF units = <<>> THEN Dimensionless
    ELSE multiply(TargetDimensions(SubSeq(units, 1, Len(units) - 1)),
                  pow(UnitDimension(units[Len(units)]),
                      Num(units[Len(units)].power)).value).value

TargetUnits == qcall.options.units[1]

OnlyHintChanged(q, r, u) ==
    /\ r.magnitude = q.magnitude
    /\ r.dimensions = q.dimensions
    /\ r.plusMinus = q.plusMinus
    /\ r.significantFigures = q.significantFigures
    /\ HintUnits(r) = u

\* C16: a successful q.convert(u) changes only the unit output: the result has
\* q's magnitude, dimensions, plusMinus and significantFigures, so
\* q.convert(u).equals(q) and q.convert(u).convert(u).equals(q.convert(u)),
\* and both conversions carry the unit output u.
C16_ConvertChangesOnlyHint ==
    (qcall.op = "convert" /\ qcall.result.ok) =>
        Bind(convert(qcall.result.value, TargetUnits), LAMBDA again :
            /\ OnlyHintChanged(qcall.this, qcall.result.value, TargetUnits)
            /\ equals(qcall.result.value, qcall.this)
            /\ again.ok
            /\ OnlyHintChanged(qcall.result.value, again.value, TargetUnits)
            /\ equals(again.value, qcall.result.value))

-----------------------------------------------------------------------------
(* Immutability *)

QuantityOps == {"add", "sub", "multiply", "convert", "toSI"}

\* A step that calls add, sub, multiply, convert or toSI on the current quantity
IsOperationStep == qcall'.op \in QuantityOps /\ qshown' = NotShown

\* A step that calls get() (which toString() reads through)
IsGetStep == qshown = NotShown /\ qshown' # NotShown

-----------------------------------------------------------------------------
(* The unit output is never an empty list *)

HintAbsentOrNonEmpty(q) == q.unitOutput = undefined \/ q.unitOutput[1] # <<>>

\* C18: every quantity that construction or a sequence of add, sub, multiply,
\* convert and toSI produces has a unit output that is absent or a non-empty
\* list; an empty list given at construction or produced by an operation is
\* normalised to absent.
C18_HintNeverEmpty ==
    qty # NoQuantity => HintAbsentOrNonEmpty(qty)

\* The operations keep the property: a result has an absent or non-empty unit
\* output when the receiver and the argument have
OperationsKeepHintNonEmpty ==
    ( /\ qcall.op \in QuantityOps
      /\ qcall.result.ok
      /\ HintAbsentOrNonEmpty(qcall.this)
      /\ qcall.arg # NoQuantity => HintAbsentOrNonEmpty(qcall.arg) ) =>
        HintAbsentOrNonEmpty(qcall.result.value)

-----------------------------------------------------------------------------
(* Units with an offset *)

HasOffset(u) == Truthy(getUnitData(u.unit).offset)

ContainsOffsetUnit(units) == \E i \in 1..Len(units) : HasOffset(units[i])

\* The scale of a unit of power 1, its prefix included
ScaleOf(u) ==
    IF u.prefix # "" THEN RMul(getUnitData(u.unit).s, prefixes(u.prefix))
    ELSE getUnitData(u.unit).s

QuantityErrors ==
    { "It is not permitted to use compound units that include the offset unit",
      "Multiplication of significant figures is not yet implemented." }

ConstructedFromUnits ==
    /\ qcall.op = "new"
    /\ qcall.options.units # undefined
    /\ qcall.options.dimensions = undefined

\* C19: constructing a Quantity from a list of units that contains a unit
\* with an offset throws a QuantityError unless the list has exactly one
\* entry; with exactly that one unit the offset is added to the magnitude
\* after scaling and recorded in offsetUsed, so that get() in the same unit
\* returns the magnitude that was given.
C19_OffsetUnits ==
    (ConstructedFromUnits /\ ContainsOffsetUnit(qcall.options.units[1])) =>
        IF Len(qcall.options.units[1]) # 1
        THEN /\ ~qcall.result.ok
             /\ qcall.result.error \in QuantityErrors
             /\ qty = NoQuantity
        ELSE /\ qcall.options.significantFigures = undefined => qcall.result.ok
             /\ qcall.result.ok =>
                    /\ qcall.options.units[1][1].power = 1 =>
                           qty.magnitude =
                               RAdd(RMul(qcall.magnitude, ScaleOf(qcall.options.units[1][1])),
                                    getUnitData(qcall.options.units[1][1].unit).offset[1])
                    /\ qty.offsetUsed = getUnitData(qcall.options.units[1][1].unit).offset
                    /\ qshown # NotShown =>
                           /\ qshown.ok
                           /\ qshown.value.magnitude = qcall.magnitude

\* C19 witness: 5 kdegC has been constructed and read back as 5
C19_Witness ==
    /\ ConstructedFromUnits
    /\ qcall.options.units[1] = <<ParsedUnit("k", "degC", 1)>>
    /\ qcall.magnitude = Num(5)
    /\ qty.magnitude = Rat(105463, 20)
    /\ qshown # NotShown
    /\ qshown.ok
    /\ qshown.value.magnitude = Num(5)

\* A compound list with an offset unit has been refused
C19_CompoundRefused ==
    /\ ConstructedFromUnits
    /\ Len(qcall.options.units[1]) = 2
    /\ ContainsOffsetUnit(qcall.options.units[1])
    /\ qcall.result.error = "It is not permitted to use compound units that include the offset unit"

-----------------------------------------------------------------------------
(* Properties of parseUnits *)

\* The tokens of a unit string with at most one '/': those of the numerator,
\* then those of the denominator
TokensOf(unitStr) ==
    LET sections == splitSections(unitStr, <<>>)
        numerator == splitParts(trim(sections[1]), <<>>)
        denominator == IF Len(sections) < 2 THEN <<>>
                       ELSE splitParts(trim(sections[2]), <<>>)
    IN  [i \in 1..(Len(numerator) + Len(denominator)) |->
            IF i <= Len(numerator)
            THEN [text |-> numerator[i], denominator |-> FALSE]
            ELSE [text |-> denominator[i - Len(numerator)], denominator |-> TRUE]]

HasExponent(token) == indexOf(token.text, "^") # -1

ExponentText(token) == substring(token.text, indexOf(token.text, "^") + 1)

\* The text is an integer other than 0: an optional sign and decimal digits
IsNonzeroIntegerText(text) ==
    /\ unsigned(text) # <<>>
    /\ AllIn(unsigned(text), DecimalDigits)
    /\ DigitsValue(unsigned(text), 10) # 0

BadExponent(token) == HasExponent(token) /\ ~IsNonzeroIntegerText(ExponentText(token))

\* The power a token stands for: 1 without an exponent, negated in the
\* denominator
PowerOf(token) ==
    LET power == IF HasExponent(token) THEN StringToNumber(ExponentText(token))
                 ELSE Decimal(1, 0)
    IN  IF token.denominator THEN [power EXCEPT !.m = 0 - power.m] ELSE power

InvalidExponentError(token) ==
    "Invalid exponent/power on unit \"" \o Text(token.text) \o "\""

ParsedWithOneSlashAtMost ==
    /\ parsed.op = "parseUnits"
    /\ Len(splitSections(parsed.unitStr, <<>>)) <= 2

\* Every accepted unit string yields, token by token, powers that are
\* integers other than 0, negated for the tokens of the denominator
AcceptedPowersAreNonzeroIntegers ==
    (ParsedWithOneSlashAtMost /\ parsed.result.ok) =>
        /\ Len(parsed.result.value) = Len(TokensOf(parsed.unitStr))
        /\ \A i \in 1..Len(parsed.result.value) :
               /\ NumberIsInteger(parsed.result.value[i].power)
               /\ parsed.result.value[i].power.m # 0
               /\ parsed.result.value[i].power = PowerOf(TokensOf(parsed.unitStr)[i])

\* C20: parseUnits rejects with an "Invalid exponent/power on unit" error
\* every token whose text after '^' is not a nonzero integer (empty,
\* non-numeric, fractional, with trailing garbage, or 0), and every accepted
\* token has a nonzero integer power, negated for tokens of the denominator.
C20_ExponentMustBeNonzeroInteger ==
    ParsedWithOneSlashAtMost =>
        /\ \A i \in 1..Len(TokensOf(parsed.unitStr)) :
               ( /\ BadExponent(TokensOf(parsed.unitStr)[i])
                 /\ \A j \in 1..(i - 1) : parseSingleUnit(TokensOf(parsed.unitStr)[j].text).ok ) =>
                   /\ ~parsed.result.ok
                   /\ parsed.result.error = InvalidExponentError(TokensOf(parsed.unitStr)[i])
        /\ AcceptedPowersAreNonzeroIntegers

\* A token with an exponent text that is not an integer has been accepted
C20_HexExponentAccepted ==
    /\ parsed.op = "parseUnits"
    /\ parsed.unitStr = <<"m", "m", "^", "0", "x", "2">>
    /\ parsed.result.ok
    /\ parsed.result.value = <<ParsedUnit("m", "m", Decimal(2, 0))>>

-----------------------------------------------------------------------------
(* Properties of prefixes *)

\* A binary prefix (Ki, Mi, Gi, ...) ends in i
IsBinaryPrefix(prefix) == prefix[Len(prefix)] = "i"

LinearPrefixKeys == { prefix \in prefixKeys : ~IsBinaryPrefix(prefix) }

\* The units flagged binary-prefixable: no entry of builtInUnits carries such
\* a flag
BinaryPrefixableUnitKeys == { unit \in builtInUnitKeys : FALSE }

\* The token is a prefix followed by a unit that allows that class of prefix
AllowedPrefixSplit(token) ==
    \E prefix \in prefixKeys, unit \in builtInUnitKeys :
        /\ token = prefix \o unit
        /\ IF IsBinaryPrefix(prefix) THEN unit \in BinaryPrefixableUnitKeys
           ELSE unit \in prefixableUnitKeys

\* The unit string is one token without exponent: no '/', separator or '^'
IsBareToken(unitStr) ==
    /\ unitStr # <<>>
    /\ unitStr[1] # "_"
    /\ AllIn(unitStr, { unitStr[i] : i \in 1..Len(unitStr) } \ {"/", " ", MiddleDot, "^"})

UnableToParseError(token) == "Unable to parse the unit \"" \o Text(token) \o "\""

\* C21: parseUnits takes an exact registry match before any prefix split,
\* accepts a prefixed token only when the rest is a registry unit that allows
\* that class of prefix (a linear prefix on a prefixable unit, a binary prefix
\* on a binary-prefixable unit), and rejects every other token with "Unable
\* to parse the unit" (so "mlb", "nin", "kh", "k%", "Kim", "Gim" all fail).
C21_PrefixOnlyWhereAllowed ==
    (parsed.op = "parseUnits" /\ IsBareToken(parsed.unitStr)) =>
        IF parsed.unitStr \in builtInUnitKeys
        THEN parsed.result = Return(<<ParsedUnit("", Text(parsed.unitStr), Decimal(1, 0))>>)
        ELSE IF AllowedPrefixSplit(parsed.unitStr)
        THEN /\ parsed.result.ok
             /\ Len(parsed.result.value) = 1
             /\ parsed.result.value[1].prefix \o parsed.result.value[1].unit
                    = Text(parsed.unitStr)
        ELSE /\ ~parsed.result.ok
             /\ parsed.result.error = UnableToParseError(parsed.unitStr)

\* A binary prefix has been accepted on the metre
C21_BinaryPrefixAccepted ==
    /\ parsed.op = "parseUnits"
    /\ parsed.unitStr = <<"K", "i", "m">>
    /\ parsed.result = Return(<<ParsedUnit("Ki", "m", Decimal(1, 0))>>)

\* C22: for every unit of the registry flagged prefixable and every prefix
\* allowed on it, parsing prefix+unit returns exactly one ParsedUnit with that
\* prefix, that unit and power 1: never another registry unit, never another
\* split.
C22_PrefixedUnitsUnambiguous ==
    \A prefix \in LinearPrefixKeys, unit \in prefixableUnitKeys :
        (parsed.op = "parseUnits" /\ parsed.unitStr = prefix \o unit) =>
            parsed.result = Return(<<ParsedUnit(Text(prefix), Text(unit), Decimal(1, 0))>>)

\* C22 witness: "dam" has been parsed as the prefix da on the unit m
C22_Witness ==
    /\ parsed.op = "parseUnits"
    /\ parsed.unitStr = <<"d", "a", "m">>
    /\ parsed.result.ok
    /\ parsed.result.value = <<ParsedUnit("da", "m", Decimal(1, 0))>>

-----------------------------------------------------------------------------
(* The unit output has the dimensions of the quantity *)

\* C23: every quantity that the constructor and a sequence of add, sub,
\* multiply, convert and toSI produce has, whenever its unit output is
\* present, a unit output whose units' dimensions raised to their powers
\* multiply to the quantity's dimensions (also when only one operand of a
\* multiply has a unit output).
C23_HintHasQuantityDimensions ==
    (qty # NoQuantity /\ qty.unitOutput # undefined) =>
        equalTo(TargetDimensions(qty.unitOutput[1]), qty.dimensions)

\* A product of a quantity in metres and one without unit output is still
\* hinted in metres although it is no length
C23_OneSidedHintKept ==
    /\ qcall.op = "multiply"
    /\ qcall.result.ok
    /\ qcall.this.unitOutput = Some(<<ParsedUnit("", "m", 1)>>)
    /\ qcall.arg.unitOutput = undefined
    /\ ~equalTo(qcall.arg.dimensions, Dimensionless)
    /\ qty.unitOutput = Some(<<ParsedUnit("", "m", 1)>>)

-----------------------------------------------------------------------------
(* Properties of the simplifier *)

InvalidConversionMessage == "Cannot convert units that aren't compatible."

TooManyCustomDimensionsMessage == "Cannot have more than 4 custom dimensions."

SimplifierEnded == simp.pc \in {"returned", "thrown"}

\* A turn of the loop has been taken; simp.last tells what it started from
TurnTaken == simp.iterations > 0

TurnSelected == TurnTaken /\ simp.pc # "thrown"

TurnReduced ==
    /\ simp.pc # "thrown"
    /\ dimensionality(simp.remainder) < dimensionality(simp.last.remainder)

TurnsBounded == simp.iterations <= dimensionality(simp.this)

\* The candidates of a turn: each unit of the list (0-based) in the positive
\* form (1) and in the inverse form (-1)
Candidates == (0..(Len(simp.unitArray) - 1)) \X {1, -1}

\* The remainder a candidate leaves of the remainder the last turn started from
CandidateRemainder(c) ==
    multiply(simp.last.remainder,
             IF c[2] = 1 THEN invert(simp.unitArray[c[1] + 1]).value
             ELSE simp.unitArray[c[1] + 1])

CandidateReduces(c) ==
    /\ CandidateRemainder(c).ok
    /\ dimensionality(CandidateRemainder(c).value) < dimensionality(simp.last.remainder)

AttainsMinimum(c) ==
    /\ CandidateRemainder(c).ok
    /\ \A d \in Candidates :
           CandidateRemainder(d).ok =>
               dimensionality(CandidateRemainder(c).value)
                   <= dimensionality(CandidateRemainder(d).value)

FirstAttaining(isInv) ==
    CHOOSE j \in 0..(Len(simp.unitArray) - 1) :
        /\ AttainsMinimum(<<j, isInv>>)
        /\ \A k \in 0..(j - 1) : ~AttainsMinimum(<<k, isInv>>)

\* The product of the units of a list picked, each raised to its power
RECURSIVE ProductOfUnits(_, _)
ProductOfUnits(used, n) ==
    IF n = 0 THEN Return(Dimensionless)
    ELSE Bind(ProductOfUnits(used, n - 1), LAMBDA rest :
         Bind(pow(simp.unitArray[used[n].i + 1], Num(used[n].power)), LAMBDA factor :
             IF ~rest.ok THEN rest
             ELSE IF ~factor.ok THEN factor
             ELSE multiply(rest.value, factor.value)))

UnitsSelected ==
    [pi \in 1..Len(simp.useUnits) |->
        [i |-> simp.useUnits[pi], power |-> simp.useUnitsPower[pi]]]

\* Each turn of the loop fails with InvalidConversionError or leaves a
\* remainder of strictly smaller dimensionality, within target.dimensionality
\* turns
EachTurnFailsOrReduces ==
    TurnTaken =>
        /\ \/ simp.pc = "thrown" /\ simp.error = InvalidConversionMessage
           \/ TurnReduced
        /\ TurnsBounded

\* The same with any error allowed for a turn that fails
EachTurnThrowsOrReduces ==
    TurnTaken => (simp.pc = "thrown" \/ TurnReduced) /\ TurnsBounded

\* C24: the simplifier terminates for every target and every list of units:
\* each turn of its loop either fails with InvalidConversionError or leaves a
\* remainder of strictly smaller dimensionality, so that it takes at most
\* target.dimensionality turns, and a call that has started ends
C24_SimplifierTerminates ==
    /\ []EachTurnFailsOrReduces
    /\ (simp.pc = "loop") ~> SimplifierEnded

\* A call that has started ends, by returning or by throwing some error,
\* within target.dimensionality turns
C24_TerminatesWithSomeError ==
    /\ []EachTurnThrowsOrReduces
    /\ (simp.pc = "loop") ~> SimplifierEnded

\* A turn has failed with the error of Dimensions.multiply on a list that
\* holds the very unit of the target
C24_TurnFailedInMultiply ==
    /\ simp.pc = "thrown"
    /\ simp.error = TooManyCustomDimensionsMessage
    /\ simp.this = FOUR_CUSTOM_DIMENSIONS
    /\ simp.unitArray = <<ZAP_DIMENSION, FOUR_CUSTOM_DIMENSIONS>>

\* C25: while the simplifier runs, the target equals the remainder times the
\* product of the units selected, each raised to its accumulated power; the
\* loop exits only with a dimensionless remainder, and the list returned
\* multiplies out to the target
C25_SelectedUnitsMakeTheTarget ==
    /\ simp.pc = "loop" =>
           Bind(ProductOfUnits(UnitsSelected, Len(UnitsSelected)), LAMBDA product :
               /\ product.ok
               /\ multiply(simp.remainder, product.value).ok
               /\ equalTo(simp.this, multiply(simp.remainder, product.value).value))
    /\ simp.pc = "returned" =>
           Bind(ProductOfUnits(simp.units, Len(simp.units)), LAMBDA product :
               /\ isDimensionless(simp.remainder)
               /\ product.ok
               /\ equalTo(product.value, simp.this))

\* C25 witness: a list of two units or more, one at a power beyond 1, has
\* been returned
C25_Witness ==
    /\ simp.pc = "returned"
    /\ Len(simp.units) >= 2
    /\ \E pi \in 1..Len(simp.units) : simp.units[pi].power \notin {1, -1}

\* C26: the candidate a turn selects leaves the least dimensionality of all
\* units in both forms; it is the first unit whose positive form attains the
\* minimum if there is one, and the first whose inverse form does otherwise;
\* a target that has the dimensions of a unit of the list is returned as the
\* first such unit at power 1
C26_SelectsMinimumPositiveFirst ==
    /\ TurnSelected =>
           /\ AttainsMinimum(<<simp.last.idx, simp.last.inv>>)
           /\ IF \E j \in 0..(Len(simp.unitArray) - 1) : AttainsMinimum(<<j, 1>>)
              THEN simp.last.inv = 1 /\ simp.last.idx = FirstAttaining(1)
              ELSE simp.last.inv = -1 /\ simp.last.idx = FirstAttaining(-1)
    /\ ( /\ simp.pc = "returned"
         /\ ~isDimensionless(simp.this)
         /\ \E j \in 1..Len(simp.unitArray) : equalTo(simp.unitArray[j], simp.this) )
       => simp.units =
              << [i |-> (CHOOSE j \in 1..Len(simp.unitArray) :
                            /\ equalTo(simp.unitArray[j], simp.this)
                            /\ \A k \in 1..(j - 1) : ~equalTo(simp.unitArray[k], simp.this)) - 1,
                  power |-> 1] >>

\* C26 witness: a turn has selected the positive form of a unit although the
\* inverse form of an earlier unit leaves as little
C26_Witness ==
    /\ TurnSelected
    /\ simp.last.inv = 1
    /\ \E j \in 0..(simp.last.idx - 1) : AttainsMinimum(<<j, -1>>)

\* Force has been returned as the newton of the SI basis
C26_ForceIsNewton ==
    /\ simp.pc = "returned"
    /\ simp.this = FORCE_DIMENSION
    /\ Len(simp.unitArray) = Len(baseSIUnits)
    /\ simp.units = <<[i |-> 4, power |-> 1]>>

\* C27: the simplifier fails with InvalidConversionError exactly when a turn
\* starts from a remainder that is not dimensionless and no unit of the list,
\* in either form, leaves a remainder of strictly smaller dimensionality; a
\* current is not simplified to coulomb and second
C27_FailsExactlyWhenNoUnitReduces ==
    /\ TurnTaken =>
           ( (simp.pc = "thrown" /\ simp.error = InvalidConversionMessage)
             <=> \A c \in Candidates : ~CandidateReduces(c) )
    /\ ( /\ SimplifierEnded
         /\ simp.this = CURRENT_DIMENSION
         /\ simp.unitArray = <<CHARGE_DIMENSION, TIME_DIMENSION>> )
       => simp.pc = "thrown" /\ simp.error = InvalidConversionMessage

\* The same where every candidate product can be formed
C27_FailsExactlyWhenNoUnitReducesAndAllDefined ==
    TurnTaken =>
        ( (simp.pc = "thrown" /\ simp.error = InvalidConversionMessage)
          <=> \A c \in Candidates : CandidateRemainder(c).ok /\ ~CandidateReduces(c) )

\* A call has failed with the error of Dimensions.multiply where no unit of
\* the list leaves less
C27_FailedInMultiplyWhereNoUnitReduces ==
    /\ simp.pc = "thrown"
    /\ simp.error = TooManyCustomDimensionsMessage
    /\ \A c \in Candidates : ~CandidateReduces(c)

\* A current has not been simplified to coulomb and second
C27_AmpereFromCoulombAndSecondFails ==
    /\ simp.pc = "thrown"
    /\ simp.error = InvalidConversionMessage
    /\ simp.this = CURRENT_DIMENSION
    /\ simp.unitArray = <<CHARGE_DIMENSION, TIME_DIMENSION>>

\* C28: every unit of the list pickUnitsFromList returns has a nonzero power
C28_PowersNonzero ==
    simp.pc = "returned" => \A pi \in 1..Len(simp.units) : simp.units[pi].power # 0

\* m s^2/kg has been returned as J^-1 L m^0 from joule, litre and metre
C28_MetreAtPowerZero ==
    /\ simp.pc = "returned"
    /\ simp.this = Dim3(-1, 1, 2)
    /\ simp.unitArray = <<NRGY_DIMENSIONS, VOLM_DIMENSIONS, DIST_DIMENSION>>
    /\ simp.units = <<[i |-> 2, power |-> 0], [i |-> 0, power |-> -1], [i |-> 1, power |-> 1]>>

-----------------------------------------------------------------------------
(* equalTo and multiply *)

\* C29: equalTo is a congruence for multiply: for a, a2 with a.equalTo(a2)
\* and any b, a.multiply(b) succeeds exactly when a2.multiply(b) does and the
\* two products are equalTo each other; a custom name of exponent 0 in a
\* does not decide whether the multiplication is allowed.  (Stated for an a
\* of at most 4 custom names.)
C29_EqualToIsCongruenceForMultiply ==
    ( /\ dcall.op = "multiply"
      /\ Len(dcall.this.customDimensionNames) <= 4 )
    => \A a2 \in ArgPool :
           equalTo(dcall.this, a2) =>
               /\ multiply(a2, dcall.arg).ok <=> dcall.result.ok
               /\ dcall.result.ok =>
                      equalTo(dcall.result.value, multiply(a2, dcall.arg).value)

\* A Dimensions of 4 custom names that equals Dimensionless has refused a
\* factor that Dimensionless accepts
C29_ZeroExponentNameRefusesFactor ==
    /\ dcall.op = "multiply"
    /\ ~dcall.result.ok
    /\ Len(dcall.this.customDimensionNames) = 4
    /\ equalTo(dcall.this, Dimensionless)
    /\ multiply(Dimensionless, dcall.arg).ok

\* The products of equal Dimensions are equal wherever both can be formed
C29_ProductsEqualWhereFormed ==
    dcall.op = "multiply" =>
        \A a2 \in ArgPool :
            ( /\ equalTo(dcall.this, a2)
              /\ dcall.result.ok
              /\ multiply(a2, dcall.arg).ok )
            => equalTo(dcall.result.value, multiply(a2, dcall.arg).value)

-----------------------------------------------------------------------------
(* Printing a quantity with an uncertainty *)

PrintedAs(magnitude, plusMinus, text) ==
    /\ printed.pc = "returned"
    /\ printed.serialized.magnitude = magnitude
    /\ printed.serialized.plusMinus = Some(plusMinus)
    /\ printed.serialized.significantFigures = undefined
    /\ Text(printed.text) = text

\* C30: toString() of a quantity with an uncertainty and no
\* significantFigures completes: the loop that trims the magnitude stops
\* while precision is at least 1 and never asks for toPrecision(0), also for
\* a magnitude below 1 with an uncertainty printed without decimals
C30_TrimStopsAtPrecisionOne ==
    /\ printed.pc # "thrown"
    /\ printed.pc = "trim" => printed.precision >= 1

\* 0.5 with the uncertainty 2 has not been printed: the loop has asked for
\* toPrecision(0)
C30_HalfPlusMinusTwoThrows ==
    /\ printed.pc = "thrown"
    /\ printed.precision = 0
    /\ printed.serialized.magnitude = Rat(1, 2)
    /\ printed.serialized.plusMinus = Some(Num(2))

\* The loop fails only for a magnitude below 1 in absolute value
C30_TrimFailsBelowOneOnly ==
    printed.pc = "thrown" =>
        /\ printed.precision = 0
        /\ Abs(printed.serialized.magnitude.num) < printed.serialized.magnitude.den

\* The quantities of the tests have been printed as the tests expect
C30_PrintedFiveMetres == PrintedAs(Num(5), Rat(2, 100), "5±0.02")
C30_PrintedFiveHundred == PrintedAs(Num(500), Rat(12345, 10000), "500±1.2")
C30_PrintedFiveHundredFifteen == PrintedAs(Num(515), Rat(2345, 1000), "515±2")
C30_PrintedRounded == PrintedAs(Rat(381207, 1000000), Rat(25, 1000000), "0.38121±0.00003")
C30_PrintedExponent == PrintedAs(Rat(1031, 2), Num(20), "516±2e+1")

====
